---- MODULE Spec2Model ----
(***************************************************************************)
(* A model of the terminal session proxy of smart-suggestion               *)
(* (packages proxy and session): the process singleton lock                *)
(* (createProcessLock, isProcessRunning, cleanupProcessLock), the bounded  *)
(* session log writer (lineLimitedWriter), the terminal normaliser         *)
(* (stripANSI, simulateTerminal), the session path derivation              *)
(* (GetSessionBasedLogFile, getSessionBasedLockFile), the purge of old     *)
(* session logs (cleanupOldSessionLogs) and the driver (RunProxyWithIO)    *)
(* with its two copy goroutines, its tee, its termination signal and its   *)
(* resize relay.                                                           *)
(*                                                                         *)
(* The lock is modelled at the granularity of its system calls, because    *)
(* the callers are separate OS processes that interleave between them.     *)
(* The lock path names at most one inode; an inode keeps existing while a  *)
(* process holds it open, also after it was unlinked from the path.        *)
(* File operations on a healthy disk succeed: MkdirAll, WriteString, Sync, *)
(* Truncate and Seek do not fail in this model.                            *)
(*                                                                         *)
(* The sources at hand hold the tests of stripANSI and simulateTerminal    *)
(* but not their code, and the writer of these sources stores its lines    *)
(* as they come.  The normaliser is therefore modelled from the rules of   *)
(* the specification, and agrees with the tables of the tests.             *)
(*                                                                         *)
(* The writer is modelled twice: with Write as one step, for what a call   *)
(* does, and with Write statement by statement in two tasks, for what its  *)
(* mutex does.  In the driver a chunk stands for the bytes of one Read of  *)
(* the pty, and a Write of a sink either takes the whole chunk or fails;   *)
(* the writer's Write there has two steps, up to the Truncate of its flush *)
(* and from it on.  The resize relay is a component of its own: it shares  *)
(* nothing with the rest of the driver but its start and its stop.         *)
(*                                                                         *)
(* Each component has its own specification; a specification keeps the     *)
(* variables of the components it does not use at their initial values.    *)
(***************************************************************************)
EXTENDS Integers, Sequences, FiniteSets, TLC

(* ---------------------------------------------------------------- bounds *)

\* Number of proxy processes that may call createProcessLock on one path.
NumProcs == 2

\* The count of completed releases saturates here (a history counter).
MaxCycles == 2

\* The largest maxLines a writer is constructed with (besides the default).
MaxN == 2

\* The longest byte chunk of one Write call.
MaxChunk == 2

\* Write calls stop once this many bytes were written in all.
MaxBytes == 5

\* The longest text given to the normaliser.
MaxInput == 4

\* The longest base log path and the longest session ID, in characters.
MaxPath == 6

MaxSid == 2

\* The most entries of the log directory, and the latest time of its clock.
MaxEntries == 2

MaxTime == 2

\* The most chunks the pty-to-output copy reads from the pty in one session.
MaxReads == 2

\* The most Write calls the tasks that share one writer make in all.
MaxCalls == 2

\* The most times the terminal is resized in one session.
MaxResizes == 2

(* ------------------------------------------------------------- constants *)

\* The PID the tests write into a stale lock file: no such process exists.
StalePid == 9999999

\* RunProxyWithIO: bufferLines = 100 when opts.BufferLines <= 0
DefaultBufferLines == 100

\* RunProxyWithIO: cleanupOldSessionLogs(opts.LogFile, 24*time.Hour), the 24
\* hours being one unit of the directory's clock
PurgeMaxAge == 1

\* RunProxyWithIO: ch := make(chan os.Signal, 1)
ChanCap == 1

(* ------------------------------------------------------- lock: the state *)

VARIABLES
    alive,       \* alive[p]: process p (PID p) exists
    pc,          \* pc[p]: where p is in createProcessLock / cleanupProcessLock
    lockPath,    \* the inode linked at the lock path: {} or {i}
    content,     \* content[i]: the bytes of inode i
    flocked,     \* the inodes on which an exclusive flock is held
    result,      \* result[p]: what p's last createProcessLock returned
    found,       \* history: what p's current/last call found at the path
    staleIno,    \* history: the inode p's call judged stale, {} or {i}
    interfered,  \* history: another process stepped during p's call
    releases     \* history: completed cleanupProcessLock calls, saturating

lockVars == <<alive, pc, lockPath, content, flocked, result, found, staleIno,
              interfered, releases>>

(* ----------------------------------------------------- writer: the state *)

VARIABLES
    ctor,      \* who constructed the writer: "RunProxy" or "direct" (as the tests do)
    arg,       \* opts.BufferLines, or the maxLines argument of a direct construction
    wstate,    \* "ready", or "panic" when newLineLimitedWriter panicked
    maxLines,  \* lineLimitedWriter.maxLines
    lines,     \* lineLimitedWriter.lines, the line ring
    buf,       \* lineLimitedWriter.buf, the pending partial line
    file,      \* the bytes of the session log file
    written    \* history: every byte passed to Write so far, in order

writerVars == <<ctor, arg, wstate, maxLines, lines, buf, file, written>>

(* --------------------------------------- writer shared by tasks: the state *)

VARIABLES
    mu,      \* lineLimitedWriter.mu: 0 when unlocked, else the task that holds it
    tpc,     \* tpc[t]: where task t is in Write
    tp,      \* tp[t]: the argument p of t's Write call
    fidx,    \* fidx[t]: the index of the next line of flush's loop in t's call
    order    \* history: the arguments of the calls, in the order they took w.mu

concVars == <<mu, tpc, tp, fidx, order>>

(* ------------------------------------------------- normaliser: the state *)

VARIABLES
    nin,   \* the text given to Normalize
    nout   \* Normalize(nin)

normVars == <<nin, nout>>

(* --------------------------------------------- session paths: the state *)

VARIABLES
    baseLogFile,     \* the base path given to GetSessionBasedLogFile
    sessionID,       \* the session ID given to it
    sessionLogFile,  \* the path it returned
    sessionLockFile  \* the lock path RunProxyWithIO derives from the same two

pathVars == <<baseLogFile, sessionID, sessionLogFile, sessionLockFile>>

(* ------------------------------------------- log directory: the state *)

VARIABLES
    dirEntries,  \* the directory of the base log: name -> entry, or NoEntry
    purgeCall,   \* history: the last cleanupOldSessionLogs call, or NoCall
    running      \* the session logs whose proxy is running and holds its lock

purgeVars == <<dirEntries, purgeCall, running>>

(* -------------------------------------------------- driver: the state *)

VARIABLES
    dpc,          \* where RunProxyWithIO is
    marker,       \* SMART_SUGGESTION_PROXY_ACTIVE: "unset", "other" or "self"
    defers,       \* the deferred calls, the last registered first
    ret,          \* what RunProxyWithIO returned: "none" until it returns
    child,        \* the shell: "none", "running", "exited" or "reaped"
    ptmx,         \* the pty: "none", "open" or "closed"
    rawMode,      \* the terminal is in raw mode
    logHandle,    \* the session log file: "none", "open" or "closed"
    spawnFailed,  \* history: pty.Start returned an error
    dirAtCall,    \* history: the log directory when RunProxyWithIO was called
    removeFailed, \* history: os.Remove(sessionLogFile) returned an error
    released,     \* history: the deferred calls that ran, in the order they ran
    childAtOpen,  \* history: the shell at the time of os.OpenFile, or "unknown"
    stdin,        \* the driver's stdin: "blocked" (no input yet), "data" or "eof"
    inTask,       \* io.Copy(ptmx, stdin): "none", "copy" or "done"
    outTask,      \* io.Copy(teeWriter, ptmx): "none", "copy", "stdout", "log",
                  \* "flush" (inside the writer's flush), "done"
    reads,        \* the number of chunks read from the pty: chunks 1 .. reads
    outSink,      \* the chunks the real output accepted, in order
    logSink,      \* the chunks passed to the bounded writer's Write, in order
    logFailed,    \* history: a Write of the bounded writer returned an error
    sigPending,   \* a SIGINT or SIGTERM waits in sigCh
    how           \* the case select took: "none", "done" or "signal"

\* The copy goroutines, their sinks and the termination signal
copyVars == <<stdin, inTask, outTask, reads, outSink, logSink, logFailed,
              sigPending, how>>

driverVars == <<dpc, marker, defers, ret, child, ptmx, rawMode, logHandle,
                spawnFailed, dirAtCall, removeFailed, released, childAtOpen,
                copyVars>>

(* --------------------------------------------- resize relay: the state *)

VARIABLES
    stdinKind,     \* the driver's stdin: "reader" (no *os.File), "file" (a
                   \* file that is no terminal) or "tty"
    termSize,      \* the size of the terminal: the n-th size it has had
    ptySize,       \* the size of the pty: 0 until it is set
    winch,         \* the number of signals waiting in ch
    mainSent,      \* RunProxyWithIO's own ch <- syscall.SIGWINCH is done
    rpc,           \* the relay goroutine: "recv", "get", "set" or "ended"
    rsize,         \* the terminal size InheritSize has read
    relayStopped,  \* signal.Stop(ch) and close(ch) have run
    relayErrs,     \* history: "Error resizing pty" was logged
    dropped        \* history: a notification found ch full

relayVars == <<stdinKind, termSize, ptySize, winch, mainSent, rpc, rsize,
               relayStopped, relayErrs, dropped>>

\* What the actions of one component leave alone
nonLockVars ==
    <<writerVars, normVars, pathVars, purgeVars, driverVars, concVars, relayVars>>

nonWriterVars ==
    <<lockVars, normVars, pathVars, purgeVars, driverVars, concVars, relayVars>>

nonNormVars ==
    <<lockVars, writerVars, pathVars, purgeVars, driverVars, concVars, relayVars>>

nonPathVars ==
    <<lockVars, writerVars, normVars, purgeVars, driverVars, concVars, relayVars>>

nonPurgeVars ==
    <<lockVars, writerVars, normVars, pathVars, driverVars, concVars, relayVars>>

\* What no step of the driver itself touches
nonDriverVars == <<writerVars, normVars, pathVars, concVars, relayVars>>

\* What the tasks that share a writer leave alone, besides the writer
nonConcVars ==
    <<lockVars, normVars, pathVars, purgeVars, driverVars, relayVars>>

\* What the resize relay leaves alone
nonRelayVars ==
    <<lockVars, writerVars, normVars, pathVars, purgeVars, driverVars, concVars>>

Procs == 1 .. NumProcs

\* The inode a process creates is named after the process: a process has at
\* most one lock file open at a time.  One more inode stands for a lock file
\* that is already there when the first process starts.
PreexistingInode == NumProcs + 1
Inodes == 1 .. (NumProcs + 1)

(* ------------------------------------------------- lock: pure operators *)

Digits == <<"0", "1", "2", "3", "4", "5", "6", "7", "8", "9">>

RECURSIVE Itoa(_)
\* fmt.Sprintf("%d", n) for n >= 0
Itoa(n) ==
    IF n < 10 THEN <<Digits[n + 1]>>
    ELSE Itoa(n \div 10) \o <<Digits[(n % 10) + 1]>>

\* fmt.Sprintf("%d\n", pid)
PidText(pid) == Itoa(pid) \o <<"\n">>

IsSpace(c) == c \in {" ", "\t", "\n", "\r", "\f", "VT"}

RECURSIVE TrimLeft(_)
TrimLeft(s) ==
    IF s = <<>> THEN <<>>
    ELSE IF IsSpace(Head(s)) THEN TrimLeft(Tail(s)) ELSE s

RECURSIVE TrimRight(_)
TrimRight(s) ==
    IF s = <<>> THEN <<>>
    ELSE IF IsSpace(s[Len(s)]) THEN TrimRight(SubSeq(s, 1, Len(s) - 1)) ELSE s

\* strings.TrimSpace
TrimSpace(s) == TrimRight(TrimLeft(s))

DigitValue(c) == CHOOSE d \in 0 .. 9 : Digits[d + 1] = c

IsDigit(c) == \E d \in 0 .. 9 : Digits[d + 1] = c

RECURSIVE DigitsValue(_, _)
DigitsValue(s, acc) ==
    IF s = <<>> THEN acc
    ELSE DigitsValue(Tail(s), (acc * 10) + DigitValue(Head(s)))

\* strconv.Atoi: an optional sign and at least one decimal digit
Atoi(s) ==
    LET signed == s # <<>> /\ Head(s) \in {"+", "-"}
        body   == IF signed THEN Tail(s) ELSE s
        ok     == body # <<>> /\ \A i \in 1 .. Len(body) : IsDigit(body[i])
    IN  IF ~ok THEN [ok |-> FALSE, val |-> 0]
        ELSE [ok  |-> TRUE,
              val |-> IF signed /\ Head(s) = "-"
                      THEN 0 - DigitsValue(body, 0)
                      ELSE DigitsValue(body, 0)]

\* os.ReadFile(lockPath)
ReadFile(linked, cont) ==
    IF linked = {} THEN [err |-> TRUE, data |-> <<>>]
    ELSE [err |-> FALSE, data |-> cont[CHOOSE i \in linked : TRUE]]

\* process.Signal(syscall.Signal(0)) returns nil exactly for an existing process
SignalZeroOk(pid, live) == pid \in live

\* A plausible slip: an unreadable PID is taken for a running holder.
isProcessRunningUnparsedIsLive(linked, cont, live) ==
    LET r == ReadFile(linked, cont)
    IN  IF r.err THEN FALSE
        ELSE LET a == Atoi(TrimSpace(r.data))
             IN  IF ~a.ok THEN TRUE ELSE SignalZeroOk(a.val, live)

\* A plausible slip: the liveness probe is skipped.
isProcessRunningNoProbe(linked, cont, live) ==
    LET r == ReadFile(linked, cont)
    IN  IF r.err THEN FALSE
        ELSE LET a == Atoi(TrimSpace(r.data))
             IN  FALSE

isProcessRunning(linked, cont, live) ==
    LET r == ReadFile(linked, cont)
    IN  IF r.err THEN FALSE
        ELSE LET a == Atoi(TrimSpace(r.data))
             IN  IF ~a.ok THEN FALSE ELSE SignalZeroOk(a.val, live)

\* A plausible slip: the file is left behind.
osRemoveKeeps(linked) == linked

\* os.Remove(lockPath): whatever inode the path names is unlinked
osRemove(linked) == {}

Live == {p \in Procs : alive[p]}

\* p is between the first and the last system call of an acquire or release
Active(p) == pc[p] \in {"probe", "remove", "retry", "flock", "write", "sync", "unlink"}

\* A step of q is seen by every other process that is inside a call.
Touch(q) == [r \in Procs |-> IF r # q /\ Active(r) THEN TRUE ELSE interfered[r]]

Bump(n) == IF n < MaxCycles THEN n + 1 ELSE n

(* --------------------------------------------------------- lock: Init *)

\* What a lock file left behind can hold: nothing (the owner died between the
\* create and the PID write), text that is no PID, or the PID of a dead process.
LeftoverContents == {<<>>, <<"a", "b", "c", "\n">>, Itoa(StalePid)}

LockInit ==
    /\ alive = [p \in Procs |-> TRUE]
    /\ pc = [p \in Procs |-> "idle"]
    /\ \/ /\ lockPath = {}
          /\ content = [i \in Inodes |-> <<>>]
       \/ /\ lockPath = {PreexistingInode}
          /\ \E c \in LeftoverContents :
                content = [i \in Inodes |-> IF i = PreexistingInode THEN c ELSE <<>>]
    /\ flocked = {}
    /\ result = [p \in Procs |-> "none"]
    /\ found = [p \in Procs |-> "none"]
    /\ staleIno = [p \in Procs |-> {}]
    /\ interfered = [p \in Procs |-> FALSE]
    /\ releases = 0

(* ------------------------------------------------------ lock: actions *)

\* The kernel frees an inode that is neither linked at the path nor held open
\* by its creator: its bytes are gone.
Reclaim(cont, linked, pcs) ==
    [i \in Inodes |->
        IF i \in linked \/ (i \in Procs /\ pcs[i] \in {"flock", "write", "sync", "held"})
        THEN cont[i] ELSE <<>>]

\* The history of a call is kept while the call runs and while its lock is
\* held; a call that returns an error keeps only what it found.
Forget(h, p, v) == [h EXCEPT ![p] = v]

\* createProcessLock, first os.OpenFile(O_CREATE|O_WRONLY|O_EXCL)
OpenExcl(p) ==
    /\ alive[p] /\ pc[p] = "idle"
    /\ result' = [result EXCEPT ![p] = "none"]
    /\ staleIno' = [staleIno EXCEPT ![p] = {}]
    /\ interfered' = [Touch(p) EXCEPT ![p] = \E r \in Procs \ {p} : Active(r)]
    /\ IF lockPath = {}
       THEN /\ lockPath' = {p}
            /\ content' = [content EXCEPT ![p] = <<>>]
            /\ pc' = [pc EXCEPT ![p] = "flock"]
            /\ found' = [found EXCEPT ![p] = "absent"]
       ELSE /\ pc' = [pc EXCEPT ![p] = "probe"]
            /\ found' = [found EXCEPT ![p] = "exists"]
            /\ UNCHANGED <<lockPath, content>>
    /\ UNCHANGED <<alive, flocked, releases, nonLockVars>>

\* History only: what the file at the path records when it is probed, told from
\* the bytes and the process table, not from what the code concludes.
RecordsLivePid(linked, cont, live) ==
    \E i \in linked : \E q \in live : cont[i] \in {Itoa(q), PidText(q)}

Judge(linked, cont, live) ==
    IF linked = {} THEN "vanished"
    ELSE IF RecordsLivePid(linked, cont, live) THEN "live" ELSE "stale"

\* createProcessLock, os.IsExist(err): isProcessRunning(lockPath)
Probe(p) ==
    /\ alive[p] /\ pc[p] = "probe"
    /\ found' = [found EXCEPT ![p] = Judge(lockPath, content, Live)]
    /\ staleIno' = [staleIno EXCEPT ![p] = IF found'[p] = "stale" THEN lockPath ELSE {}]
    /\ IF isProcessRunning(lockPath, content, Live)
       THEN /\ pc' = [pc EXCEPT ![p] = "idle"]
            /\ result' = [result EXCEPT ![p] = "already_running"]
            /\ interfered' = Forget(Touch(p), p, FALSE)
       ELSE /\ pc' = [pc EXCEPT ![p] = "remove"]
            /\ interfered' = Touch(p)
            /\ UNCHANGED result
    /\ UNCHANGED <<alive, lockPath, content, flocked, releases, nonLockVars>>

\* createProcessLock, os.Remove(lockPath) of the file judged stale
RemoveStale(p) ==
    /\ alive[p] /\ pc[p] = "remove"
    /\ interfered' = Touch(p)
    /\ lockPath' = osRemove(lockPath)
    /\ pc' = [pc EXCEPT ![p] = "retry"]
    /\ content' = Reclaim(content, lockPath', pc')
    /\ UNCHANGED <<alive, flocked, result, found, staleIno, releases, nonLockVars>>

\* createProcessLock, second os.OpenFile(O_CREATE|O_WRONLY|O_EXCL)
RetryOpenExcl(p) ==
    /\ alive[p] /\ pc[p] = "retry"
    /\ IF lockPath = {}
       THEN /\ lockPath' = {p}
            /\ content' = [content EXCEPT ![p] = <<>>]
            /\ pc' = [pc EXCEPT ![p] = "flock"]
            /\ interfered' = Touch(p)
            /\ UNCHANGED <<result, staleIno>>
       ELSE /\ pc' = [pc EXCEPT ![p] = "idle"]
            /\ result' = [result EXCEPT ![p] = "create_failed"]
            /\ interfered' = Forget(Touch(p), p, FALSE)
            /\ staleIno' = Forget(staleIno, p, {})
            /\ UNCHANGED <<lockPath, content>>
    /\ UNCHANGED <<alive, flocked, found, releases, nonLockVars>>

\* createProcessLock, syscall.Flock(fd, LOCK_EX|LOCK_NB) on the inode p created
Flock(p) ==
    /\ alive[p] /\ pc[p] = "flock"
    /\ IF p \notin flocked
       THEN /\ flocked' = flocked \cup {p}
            /\ pc' = [pc EXCEPT ![p] = "write"]
            /\ interfered' = Touch(p)
            /\ UNCHANGED <<lockPath, content, result, staleIno>>
       ELSE /\ lockPath' = osRemove(lockPath)
            /\ pc' = [pc EXCEPT ![p] = "idle"]
            /\ result' = [result EXCEPT ![p] = "flock_failed"]
            /\ interfered' = Forget(Touch(p), p, FALSE)
            /\ staleIno' = Forget(staleIno, p, {})
            /\ content' = Reclaim(content, lockPath', pc')
            /\ UNCHANGED flocked
    /\ UNCHANGED <<alive, found, releases, nonLockVars>>

\* createProcessLock, file.WriteString(fmt.Sprintf("%d\n", pid))
WritePid(p) ==
    /\ alive[p] /\ pc[p] = "write"
    /\ interfered' = Touch(p)
    /\ content' = [content EXCEPT ![p] = content[p] \o PidText(p)]
    /\ pc' = [pc EXCEPT ![p] = "sync"]
    /\ UNCHANGED <<alive, lockPath, flocked, result, found, staleIno, releases, nonLockVars>>

\* createProcessLock, file.Sync() and return file, nil
SyncReturn(p) ==
    /\ alive[p] /\ pc[p] = "sync"
    /\ interfered' = Touch(p)
    /\ pc' = [pc EXCEPT ![p] = "held"]
    /\ result' = [result EXCEPT ![p] = "ok"]
    /\ UNCHANGED <<alive, lockPath, content, flocked, found, staleIno, releases, nonLockVars>>

\* cleanupProcessLock, syscall.Flock(fd, LOCK_UN) and file.Close()
UnlockClose(p) ==
    /\ alive[p] /\ pc[p] = "held"
    /\ flocked' = flocked \ {p}
    /\ pc' = [pc EXCEPT ![p] = "unlink"]
    /\ content' = Reclaim(content, lockPath, pc')
    /\ interfered' = Forget(Touch(p), p, FALSE)
    /\ staleIno' = Forget(staleIno, p, {})
    /\ found' = Forget(found, p, "none")
    /\ UNCHANGED <<alive, lockPath, result, releases, nonLockVars>>

\* cleanupProcessLock, os.Remove(lockPath) and return
RemoveOnRelease(p) ==
    /\ alive[p] /\ pc[p] = "unlink"
    /\ interfered' = Touch(p)
    /\ lockPath' = osRemove(lockPath)
    /\ pc' = [pc EXCEPT ![p] = "idle"]
    /\ content' = Reclaim(content, lockPath', pc')
    /\ releases' = Bump(releases)
    /\ UNCHANGED <<alive, flocked, result, found, staleIno, nonLockVars>>

\* The process dies inside a call or while holding the lock: the kernel closes
\* its descriptors (dropping its flock); the lock file stays where it is.
Crash(p) ==
    /\ alive[p] /\ pc[p] # "idle"
    /\ alive' = [alive EXCEPT ![p] = FALSE]
    /\ pc' = [pc EXCEPT ![p] = "dead"]
    /\ flocked' = flocked \ {p}
    /\ content' = Reclaim(content, lockPath, pc')
    /\ result' = Forget(result, p, "none")
    /\ found' = Forget(found, p, "none")
    /\ staleIno' = Forget(staleIno, p, {})
    /\ interfered' = Forget(interfered, p, FALSE)
    /\ UNCHANGED <<lockPath, releases, nonLockVars>>

AcquireStep(p) ==
    \/ OpenExcl(p)
    \/ Probe(p)
    \/ RemoveStale(p)
    \/ RetryOpenExcl(p)
    \/ Flock(p)
    \/ WritePid(p)
    \/ SyncReturn(p)

ReleaseStep(p) ==
    \/ UnlockClose(p)
    \/ RemoveOnRelease(p)

(* ----------------------------------------------- writer: pure operators *)

\* The bytes a pty can deliver, as far as the writer tells them apart: the line
\* feed it scans for, and bytes it does not look at (a letter, carriage
\* return, vertical tab, escape).
LF == "\n"
Bytes == {LF, "a", "\r", "VT", "ESC"}

\* RunProxyWithIO: a BufferLines option that is not positive means the default
RunProxyBufferLines(opt) == IF opt <= 0 THEN DefaultBufferLines ELSE opt

\* A plausible slip: the newest line is dropped instead of the oldest.
PushDropsNewest(ring, line, n) ==
    LET a == Append(ring, line)
    IN  IF Len(a) > n THEN SubSeq(a, 1, Len(a) - 1) ELSE a

\* A plausible slip: the ring is never trimmed.
PushNeverEvicts(ring, line, n) == Append(ring, line)

\* A plausible variant: a bound that is not positive switches eviction off.
PushUnboundedIfNotPositive(ring, line, n) ==
    LET a == Append(ring, line)
    IN  IF n > 0 /\ Len(a) > n THEN Tail(a) ELSE a

\* Write: w.lines = append(w.lines, line); if len(w.lines) > w.maxLines { w.lines = w.lines[1:] }
Push(ring, line, n) ==
    LET a == Append(ring, line)
    IN  IF Len(a) > n THEN Tail(a) ELSE a

\* Write's inner loop: the index of the first '\n' of the buffer, 0 for none
\* (the code's idx, counted from 1)
FirstLF(b) ==
    IF \E i \in 1 .. Len(b) : b[i] = LF
    THEN CHOOSE i \in 1 .. Len(b) : b[i] = LF /\ \A j \in 1 .. (i - 1) : b[j] # LF
    ELSE 0

RECURSIVE ScanPushesPartial(_, _, _)
\* A plausible slip: what is left without a terminator is pushed as a line too.
ScanPushesPartial(ring, b, n) ==
    LET idx == FirstLF(b)
    IN  IF idx = 0
        THEN IF b = <<>> THEN [lines |-> ring, buf |-> b]
             ELSE [lines |-> Push(ring, b, n), buf |-> <<>>]
        ELSE ScanPushesPartial(Push(ring, SubSeq(b, 1, idx), n),
                               SubSeq(b, idx + 1, Len(b)), n)

\* A plausible slip: an "if" for the loop, so a call cuts off one line at most.
ScanStopsAtFirstLine(ring, b, n) ==
    LET idx == FirstLF(b)
    IN  IF idx = 0 THEN [lines |-> ring, buf |-> b]
        ELSE [lines |-> Push(ring, SubSeq(b, 1, idx), n),
              buf |-> SubSeq(b, idx + 1, Len(b))]

RECURSIVE Scan(_, _, _)
\* Write's outer loop: cut every complete line off the buffer and push it
Scan(ring, b, n) ==
    LET idx == FirstLF(b)
    IN  IF idx = 0 THEN [lines |-> ring, buf |-> b]
        ELSE Scan(Push(ring, SubSeq(b, 1, idx), n), SubSeq(b, idx + 1, Len(b)), n)

RECURSIVE Concat(_)
Concat(ss) == IF ss = <<>> THEN <<>> ELSE Head(ss) \o Concat(Tail(ss))

\* A plausible slip: the rewrite skips the first line of the ring.
flushSkipsFirst(ring) == IF ring = <<>> THEN <<>> ELSE Concat(Tail(ring))

\* flush: Truncate(0), Seek(0, 0), then WriteString of every line of the ring
flush(ring) == Concat(ring)

(* ----------------------------------------------------- writer: actions *)

\* The writer as constructed: by RunProxyWithIO from opts.BufferLines, or
\* directly with a maxLines argument.  make([]string, 0, maxLines) panics for
\* a negative capacity.
WriterInit ==
    /\ ctor \in {"RunProxy", "direct"}
    /\ arg \in (0 - 1) .. MaxN
    /\ maxLines = IF ctor = "RunProxy" THEN RunProxyBufferLines(arg) ELSE arg
    /\ wstate = IF maxLines < 0 THEN "panic" ELSE "ready"
    /\ lines = <<>>
    /\ buf = <<>>
    /\ file = <<>>
    /\ written = <<>>

Chunks == UNION {[1 .. k -> Bytes] : k \in 0 .. MaxChunk}

\* lineLimitedWriter.Write(p), under w.mu from its first to its last statement
Write(p) ==
    /\ wstate = "ready"
    /\ Len(written) + Len(p) <= MaxBytes
    /\ LET r == Scan(lines, buf \o p, maxLines)
       IN  /\ lines' = r.lines
           /\ buf' = r.buf
           /\ file' = flush(r.lines)
    /\ written' = written \o p
    /\ UNCHANGED <<ctor, arg, wstate, maxLines, nonWriterVars>>

WriterNext == \E p \in Chunks : Write(p)

(* --------------------------------------- writer shared by tasks: actions *)

\* The tasks that call Write on one writer
Tasks == {1, 2}

\* What they write: a partial line, a line, the end of a line with the start
\* of the next, two line ends
TaskChunks == {<<"a">>, <<"a", LF>>, <<LF, "a">>, <<LF, LF>>}

\* A plausible slip: Write without w.mu.Lock(), which then never blocks.
MuAlwaysFree(m) == TRUE

\* w.mu.Lock() goes on when nobody holds the mutex
MuFree(m) == m = 0

\* A plausible slip: flush rewrites without truncating; the file is open for
\* appending, so the lines go after what it holds.
Truncate0Skipped(f) == f

\* w.file.Truncate(0): the file holds nothing
Truncate0(f) == <<>>

ConcInit ==
    /\ mu = 0
    /\ tpc = [t \in Tasks |-> "idle"]
    /\ tp = [t \in Tasks |-> <<>>]
    /\ fidx = [t \in Tasks |-> 0]
    /\ order = <<>>

\* Task t calls w.Write(p).
CallWrite(t, p) ==
    /\ wstate = "ready"
    /\ tpc[t] = "idle"
    /\ Len(order) + Cardinality({u \in Tasks : tpc[u] = "lock"}) < MaxCalls
    /\ tpc' = [tpc EXCEPT ![t] = "lock"]
    /\ tp' = [tp EXCEPT ![t] = p]
    /\ UNCHANGED <<mu, fidx, order, writerVars, nonConcVars>>

\* w.mu.Lock() returns in t's call.
MuLock(t) ==
    /\ tpc[t] = "lock"
    /\ MuFree(mu)
    /\ mu' = t
    /\ tpc' = [tpc EXCEPT ![t] = "append"]
    /\ order' = Append(order, tp[t])
    /\ written' = written \o tp[t]
    /\ UNCHANGED <<tp, fidx, ctor, arg, wstate, maxLines, lines, buf, file,
                   nonConcVars>>

\* w.buf = append(w.buf, p...)
AppendBuf(t) ==
    /\ tpc[t] = "append"
    /\ buf' = buf \o tp[t]
    /\ tpc' = [tpc EXCEPT ![t] = "scan"]
    /\ UNCHANGED <<mu, tp, fidx, order, ctor, arg, wstate, maxLines, lines,
                   file, written, nonConcVars>>

\* One round of Write's outer loop: without a '\n' in w.buf the loop ends,
\* else the first line is cut off w.buf and pushed.
ScanRound(t) ==
    /\ tpc[t] = "scan"
    /\ LET idx == FirstLF(buf)
       IN  IF idx = 0
           THEN /\ tpc' = [tpc EXCEPT ![t] = "truncate"]
                /\ UNCHANGED <<lines, buf>>
           ELSE /\ lines' = Push(lines, SubSeq(buf, 1, idx), maxLines)
                /\ buf' = SubSeq(buf, idx + 1, Len(buf))
                /\ UNCHANGED tpc
    /\ UNCHANGED <<mu, tp, fidx, order, ctor, arg, wstate, maxLines, file,
                   written, nonConcVars>>

\* flush: w.file.Truncate(0) and w.file.Seek(0, 0)
TruncateFile(t) ==
    /\ tpc[t] = "truncate"
    /\ file' = Truncate0(file)
    /\ fidx' = [fidx EXCEPT ![t] = 1]
    /\ tpc' = [tpc EXCEPT ![t] = "write"]
    /\ UNCHANGED <<mu, tp, order, ctor, arg, wstate, maxLines, lines, buf,
                   written, nonConcVars>>

\* flush: one round of "for _, line := range w.lines { WriteString(line) }",
\* or the end of the loop and of flush
WriteLine(t) ==
    /\ tpc[t] = "write"
    /\ IF fidx[t] <= Len(lines)
       THEN /\ file' = file \o lines[fidx[t]]
            /\ fidx' = [fidx EXCEPT ![t] = fidx[t] + 1]
            /\ UNCHANGED tpc
       ELSE /\ tpc' = [tpc EXCEPT ![t] = "unlock"]
            /\ fidx' = [fidx EXCEPT ![t] = 0]
            /\ UNCHANGED file
    /\ UNCHANGED <<mu, tp, order, ctor, arg, wstate, maxLines, lines, buf,
                   written, nonConcVars>>

\* The deferred w.mu.Unlock(), and Write returns.
MuUnlock(t) ==
    /\ tpc[t] = "unlock"
    /\ mu' = IF mu = t THEN 0 ELSE mu
    /\ tpc' = [tpc EXCEPT ![t] = "idle"]
    /\ tp' = [tp EXCEPT ![t] = <<>>]
    /\ UNCHANGED <<fidx, order, writerVars, nonConcVars>>

ConcNext ==
    \E t \in Tasks :
        \/ \E p \in TaskChunks : CallWrite(t, p)
        \/ MuLock(t)
        \/ AppendBuf(t)
        \/ ScanRound(t)
        \/ TruncateFile(t)
        \/ WriteLine(t)
        \/ MuUnlock(t)

(* ------------------------------------------------ normaliser: the text *)

\* The bytes of a text: the escape, bell, backspace, carriage return, line
\* feed, vertical tab and form feed controls, and the printable "[", "]",
\* "\", ";", a digit and a letter.
ESC == "ESC"
BEL == "BEL"
BS == "BS"
CR == "\r"
VT == "VT"
FF == "FF"

Printable == {"[", "]", "\\", ";", "7", "m"}

NBytes == {ESC, BEL, BS, CR, LF, VT, FF} \cup Printable

\* The parameter bytes and the final bytes (letters) of a CSI sequence
CsiParams == {"7", ";"}

CsiFinals == {"m"}

\* The digits that open the body of an OSC sequence
OscDigits == {"7"}

\* The bytes that form a single-character sequence with ESC: 7 and 8
EscChars == {"7", "8"}

\* The byte at position i of s, or none beyond its ends
At(s, i) == IF i >= 1 /\ i <= Len(s) THEN s[i] ELSE "EOF"

RECURSIVE SkipWhile(_, _, _)
\* The first position from i on whose byte is not in set
SkipWhile(s, i, set) ==
    IF i <= Len(s) /\ s[i] \in set THEN SkipWhile(s, i + 1, set) ELSE i

\* Each of the following gives the position after the sequence that starts
\* at position i, or 0 when none starts there.

\* CSI: ESC [ parameters letter
CsiEnd(s, i) ==
    IF At(s, i) = ESC /\ At(s, i + 1) = "["
    THEN LET j == SkipWhile(s, i + 2, CsiParams)
         IN  IF At(s, j) \in CsiFinals THEN j + 1 ELSE 0
    ELSE 0

\* OSC: ESC ] body, ended by BEL or by ESC \
OscEnd(s, i) ==
    IF At(s, i) = ESC /\ At(s, i + 1) = "]"
    THEN LET j == SkipWhile(s, i + 2, NBytes \ {ESC, BEL})
         IN  IF At(s, j) = BEL THEN j + 1
             ELSE IF At(s, j) = ESC /\ At(s, j + 1) = "\\" THEN j + 2
             ELSE 0
    ELSE 0

\* ESC 7, ESC 8
EscCharEnd(s, i) ==
    IF At(s, i) = ESC /\ At(s, i + 1) \in EscChars THEN i + 2 ELSE 0

\* A plausible slip: a digit alone is taken for the body of an OSC sequence.
OscLeftoverEndNoSemicolon(s, i) ==
    LET j == SkipWhile(s, i, OscDigits)
    IN  IF j > i THEN SkipWhile(s, j, NBytes \ {LF}) ELSE 0

\* The body of an OSC sequence whose introducer is missing (digits, ";",
\* text), at the start of a line: it runs up to the next line feed.
OscLeftoverEnd(s, i) ==
    LET j == SkipWhile(s, i, OscDigits)
    IN  IF j > i /\ At(s, j) = ";" THEN SkipWhile(s, j + 1, NBytes \ {LF}) ELSE 0

\* A plausible slip: only the two introducer bytes of a CSI sequence go.
EscapeEndIntroducerOnly(s, i) ==
    IF At(s, i) = ESC /\ At(s, i + 1) = "[" /\ CsiEnd(s, i) # 0 THEN i + 2
    ELSE IF OscEnd(s, i) # 0 THEN OscEnd(s, i)
    ELSE IF EscCharEnd(s, i) # 0 THEN EscCharEnd(s, i)
    ELSE IF At(s, i) = BEL THEN i + 1
    ELSE 0

\* The zero-width sequences: CSI, OSC, ESC 7/8 and the bare bell
EscapeEnd(s, i) ==
    IF CsiEnd(s, i) # 0 THEN CsiEnd(s, i)
    ELSE IF OscEnd(s, i) # 0 THEN OscEnd(s, i)
    ELSE IF EscCharEnd(s, i) # 0 THEN EscCharEnd(s, i)
    ELSE IF At(s, i) = BEL THEN i + 1
    ELSE 0

RECURSIVE stripFrom(_, _, _)
\* s from position i on without its sequences; bol: position i starts a line
stripFrom(s, i, bol) ==
    IF i > Len(s) THEN <<>>
    ELSE IF EscapeEnd(s, i) # 0 THEN stripFrom(s, EscapeEnd(s, i), bol)
    ELSE IF bol /\ OscLeftoverEnd(s, i) # 0
         THEN stripFrom(s, OscLeftoverEnd(s, i), FALSE)
    ELSE <<s[i]>> \o stripFrom(s, i + 1, s[i] = LF)

\* The text up to and including its last line feed: the completed lines
UpToLastLF(out) ==
    LET brk == {i \in 1 .. Len(out) : out[i] = LF}
    IN  IF brk = {} THEN <<>>
        ELSE SubSeq(out, 1, CHOOSE i \in brk : \A j \in brk : j <= i)

\* A plausible slip: the carriage return discards the earlier lines as well.
OnCRDiscardsAll(out) == <<>>

\* A carriage return with no line feed after it: the current line starts over
OnCR(out) == UpToLastLF(out)

\* A plausible slip: the backspace deletes across the line break.
OnBSCrossesLines(out) ==
    IF out = <<>> THEN out ELSE SubSeq(out, 1, Len(out) - 1)

\* A backspace: the last character of the current line goes, if it has one
OnBS(out) ==
    IF out = <<>> \/ out[Len(out)] = LF THEN out
    ELSE SubSeq(out, 1, Len(out) - 1)

RECURSIVE simFrom(_, _, _)
\* out followed by what s from position i on leaves on the screen
simFrom(s, i, out) ==
    IF i > Len(s) THEN out
    ELSE LET c == s[i]
         IN  IF c = LF THEN simFrom(s, i + 1, Append(out, LF))
             ELSE IF c = CR
                  THEN IF At(s, i + 1) = LF THEN simFrom(s, i + 1, out)
                       ELSE simFrom(s, i + 1, OnCR(out))
             ELSE IF c = BS THEN simFrom(s, i + 1, OnBS(out))
             ELSE IF c \in {VT, FF} THEN simFrom(s, i + 1, Append(out, LF))
             ELSE IF c \in Printable THEN simFrom(s, i + 1, Append(out, c))
             ELSE simFrom(s, i + 1, out)

\* simulateTerminal: backspace, carriage return, vertical tab and form feed
\* take their effect on the line, the other controls go
simulateTerminal(s) == simFrom(s, 1, <<>>)

\* stripANSI: the sequences go, then the controls take their effect
stripANSI(s) == simulateTerminal(stripFrom(s, 1, TRUE))

Normalize(text) == stripANSI(text)

(* --------------------------------------------- normaliser: the actions *)

NormInit == nin = <<>> /\ nout = <<>>

\* One more byte of text arrives; the text so far is normalised as a whole.
Feed(c) ==
    /\ Len(nin) < MaxInput
    /\ nin' = Append(nin, c)
    /\ nout' = Normalize(nin')
    /\ UNCHANGED nonNormVars

NormNext == \E c \in NBytes : Feed(c)

(* ---------------------------------------------- session paths: the text *)

\* A path is a sequence of characters: the separator, the dot and a letter.
SEP == "/"
DOT == "."

PathChars == {SEP, DOT, "a"}

\* A session ID comes from a flag, an environment variable, a terminal name
\* or a PID: any characters.
SidChars == {"s", DOT, SEP}

\* The last position of character c in s, or 0
LastIndex(s, c) ==
    LET at == {i \in 1 .. Len(s) : s[i] = c}
    IN  IF at = {} THEN 0 ELSE CHOOSE i \in at : \A j \in at : j <= i

RECURSIVE Split(_)
\* The elements of a path between its separators
Split(path) ==
    LET seps == {i \in 1 .. Len(path) : path[i] = SEP}
    IN  IF seps = {} THEN <<path>>
        ELSE LET k == CHOOSE i \in seps : \A j \in seps : i <= j
             IN  <<SubSeq(path, 1, k - 1)>> \o Split(SubSeq(path, k + 1, Len(path)))

RECURSIVE JoinElems(_)
JoinElems(elems) ==
    IF elems = <<>> THEN <<>>
    ELSE IF Len(elems) = 1 THEN elems[1]
    ELSE elems[1] \o <<SEP>> \o JoinElems(Tail(elems))

RECURSIVE CleanElems(_, _, _)
\* filepath.Clean, element by element: drop empty and "." elements; ".."
\* removes the element before it, is dropped at the root and kept otherwise
CleanElems(elems, acc, rooted) ==
    IF elems = <<>> THEN acc
    ELSE LET e == Head(elems)
             rest == Tail(elems)
         IN  IF e = <<>> \/ e = <<DOT>> THEN CleanElems(rest, acc, rooted)
             ELSE IF e = <<DOT, DOT>>
                  THEN IF acc # <<>> /\ acc[Len(acc)] # <<DOT, DOT>>
                       THEN CleanElems(rest, SubSeq(acc, 1, Len(acc) - 1), rooted)
                       ELSE IF rooted THEN CleanElems(rest, acc, rooted)
                       ELSE CleanElems(rest, Append(acc, e), rooted)
             ELSE CleanElems(rest, Append(acc, e), rooted)

\* filepath.Clean
filepathClean(path) ==
    IF path = <<>> THEN <<DOT>>
    ELSE LET rooted == path[1] = SEP
             body == JoinElems(CleanElems(Split(path), <<>>, rooted))
         IN  IF rooted THEN <<SEP>> \o body
             ELSE IF body = <<>> THEN <<DOT>>
             ELSE body

\* filepath.Dir: all but the last element, cleaned
filepathDir(path) == filepathClean(SubSeq(path, 1, LastIndex(path, SEP)))

RECURSIVE StripTrailingSeps(_)
StripTrailingSeps(path) ==
    IF path # <<>> /\ path[Len(path)] = SEP
    THEN StripTrailingSeps(SubSeq(path, 1, Len(path) - 1))
    ELSE path

\* filepath.Base: the last element, trailing separators removed first
filepathBase(path) ==
    IF path = <<>> THEN <<DOT>>
    ELSE LET t == StripTrailingSeps(path)
         IN  IF t = <<>> THEN <<SEP>>
             ELSE SubSeq(t, LastIndex(t, SEP) + 1, Len(t))

\* A plausible slip: the extension starts at the first dot of the name.
filepathExtFromFirstDot(path) ==
    LET name == SubSeq(path, LastIndex(path, SEP) + 1, Len(path))
        dots == {i \in 1 .. Len(name) : name[i] = DOT}
    IN  IF dots = {} THEN <<>>
        ELSE SubSeq(name, CHOOSE i \in dots : \A j \in dots : i <= j, Len(name))

\* filepath.Ext: from the last dot of the last element on
filepathExt(path) ==
    LET name == SubSeq(path, LastIndex(path, SEP) + 1, Len(path))
        k == LastIndex(name, DOT)
    IN  IF k = 0 THEN <<>> ELSE SubSeq(name, k, Len(name))

\* strings.TrimSuffix
TrimSuffix(str, suffix) ==
    IF Len(suffix) <= Len(str)
       /\ SubSeq(str, Len(str) - Len(suffix) + 1, Len(str)) = suffix
    THEN SubSeq(str, 1, Len(str) - Len(suffix))
    ELSE str

\* filepath.Join of two elements, the first of which is not empty
filepathJoin(dir, name) == filepathClean(dir \o <<SEP>> \o name)

GetSessionBasedLogFile(baseLog, sid) ==
    IF sid = <<>> THEN baseLog
    ELSE LET dir == filepathDir(baseLog)
             base == filepathBase(baseLog)
             ext == filepathExt(base)
             stem == IF ext # <<>> THEN TrimSuffix(base, ext) ELSE base
         IN  filepathJoin(dir, stem \o <<DOT>> \o sid \o ext)

\* The extension ".lock"
LockExt == <<DOT, "l">>

\* A plausible slip: the lock extension is put after the whole base log path.
BaseLockFileKeepsExt(logFile) == logFile \o LockExt

\* strings.TrimSuffix(opts.LogFile, filepath.Ext(opts.LogFile)) + ".lock"
BaseLockFile(logFile) == TrimSuffix(logFile, filepathExt(logFile)) \o LockExt

getSessionBasedLockFile(baseLock, sid) ==
    IF sid = <<>> THEN baseLock
    ELSE LET dir == filepathDir(baseLock)
             base == filepathBase(baseLock)
             ext == filepathExt(base)
             stem == IF ext # <<>> THEN TrimSuffix(base, ext) ELSE base
         IN  filepathJoin(dir, stem \o <<DOT>> \o sid \o ext)

\* sessionLockFile as RunProxyWithIO derives it from opts
SessionLockFile(logFile, sid) ==
    getSessionBasedLockFile(BaseLockFile(logFile), sid)

(* ------------------------------------------- session paths: the actions *)

PathInit ==
    /\ baseLogFile = <<>>
    /\ sessionID = <<>>
    /\ sessionLogFile = <<>>
    /\ sessionLockFile = SessionLockFile(<<>>, <<>>)

\* The session paths derived from a base path one character longer than the
\* one before
DeriveWithLongerBase(c) ==
    /\ Len(baseLogFile) < MaxPath
    /\ baseLogFile' = Append(baseLogFile, c)
    /\ sessionLogFile' = GetSessionBasedLogFile(baseLogFile', sessionID)
    /\ sessionLockFile' = SessionLockFile(baseLogFile', sessionID)
    /\ UNCHANGED <<sessionID, nonPathVars>>

\* A call with a base path that goes on with the extension ".lock"
DeriveWithLockExtension ==
    /\ Len(baseLogFile) + Len(LockExt) <= MaxPath
    /\ \A i \in 1 .. Len(baseLogFile) : baseLogFile[i] # "l"
    /\ baseLogFile' = baseLogFile \o LockExt
    /\ sessionLogFile' = GetSessionBasedLogFile(baseLogFile', sessionID)
    /\ sessionLockFile' = SessionLockFile(baseLogFile', sessionID)
    /\ UNCHANGED <<sessionID, nonPathVars>>

\* A call with a session ID one character longer
DeriveWithLongerSid(c) ==
    /\ Len(sessionID) < MaxSid
    /\ sessionID' = Append(sessionID, c)
    /\ sessionLogFile' = GetSessionBasedLogFile(baseLogFile, sessionID')
    /\ sessionLockFile' = SessionLockFile(baseLogFile, sessionID')
    /\ UNCHANGED <<baseLogFile, nonPathVars>>

PathNext ==
    \/ \E c \in PathChars : DeriveWithLongerBase(c)
    \/ DeriveWithLockExtension
    \/ \E c \in SidChars : DeriveWithLongerSid(c)

(* --------------------------------------- log directory: the operations *)

STAR == "*"

\* The base log paths cleanupOldSessionLogs is called with: one with and one
\* without an extension, as proxy.log and proxy.
BaseLogPaths == {<<"a", DOT, "a">>, <<"a">>}

\* The names an entry of the directory may have: the base files themselves,
\* session siblings (with an empty ID as well), a sibling with another
\* extension, and a name without the dot after the stem.
EntryNames ==
    { <<"a", DOT, "a">>, <<"a">>,
      <<"a", DOT, "s", DOT, "a">>, <<"a", DOT, DOT, "a">>,
      <<"a", DOT, "s", DOT, "b">>,
      <<"a", "s", DOT, "a">> }

Times == 0 .. MaxTime

NoEntry == [isDir |-> FALSE, modTime |-> 0 - 1]

NoCall == [called |-> FALSE]

\* An entry: a file with its modification time, or a directory (an old one)
Entries == [isDir : {FALSE}, modTime : Times] \cup {[isDir |-> TRUE, modTime |-> 0]}

\* time.Now() at the call: no entry was modified later
Now == MaxTime

RECURSIVE filepathMatch(_, _)
\* filepath.Match for a pattern of literal characters and "*", which stands
\* for any run of characters other than the separator
filepathMatch(pattern, name) ==
    IF pattern = <<>> THEN name = <<>>
    ELSE IF Head(pattern) = STAR
         THEN \E k \in 0 .. Len(name) :
                  /\ \A i \in 1 .. k : name[i] # SEP
                  /\ filepathMatch(Tail(pattern), SubSeq(name, k + 1, Len(name)))
    ELSE /\ name # <<>>
         /\ Head(name) = Head(pattern)
         /\ filepathMatch(Tail(pattern), Tail(name))

\* A plausible slip: a file modified exactly at the cutoff counts as older.
BeforeOrAt(t, u) == t <= u

\* time.Time.Before
Before(t, u) == t < u

\* fmt.Sprintf("%s.*%s", base, ext) for the base name without its extension
PurgePattern(baseLogPath) ==
    LET base == filepathBase(baseLogPath)
        ext == filepathExt(base)
        stem == IF ext # <<>> THEN TrimSuffix(base, ext) ELSE base
    IN  stem \o <<DOT, STAR>> \o ext

\* The entries the loop of cleanupOldSessionLogs removes
Removed(entries, baseLogPath, cutoff) ==
    {n \in EntryNames :
        /\ entries[n] # NoEntry
        /\ ~entries[n].isDir
        /\ filepathMatch(PurgePattern(baseLogPath), n)
        /\ n # filepathBase(baseLogPath)
        /\ Before(entries[n].modTime, cutoff)}

(* ------------------------------------------ log directory: the actions *)

PurgeInit ==
    /\ dirEntries = [n \in EntryNames |-> NoEntry]
    /\ purgeCall = NoCall
    /\ running = {}

\* Some process creates a file or a directory in the log directory.
CreateEntry(n, e) ==
    /\ dirEntries[n] = NoEntry
    /\ Cardinality({m \in EntryNames : dirEntries[m] # NoEntry}) < MaxEntries
    /\ dirEntries' = [dirEntries EXCEPT ![n] = e]
    /\ purgeCall' = NoCall
    /\ UNCHANGED <<running, nonPurgeVars>>

\* The session IDs of the other proxies: none, or one
OtherSessionIDs == {<<>>, <<"s">>}

\* Another proxy, of the session sid of the base log b, took its lock and
\* opened its session log; t is when it last wrote to it.
SessionStarts(b, sid, t) ==
    LET n == GetSessionBasedLogFile(b, sid)
    IN  /\ n \in EntryNames /\ n \notin running
        /\ dirEntries[n] = NoEntry
        /\ Cardinality({m \in EntryNames : dirEntries[m] # NoEntry}) < MaxEntries
        /\ dirEntries' = [dirEntries EXCEPT ![n] = [isDir |-> FALSE, modTime |-> t]]
        /\ running' = running \cup {n}
        /\ purgeCall' = NoCall
        /\ UNCHANGED nonPurgeVars

\* A running proxy writes to its log: a flush on the file it holds open.  A
\* file that was removed from the directory does not come back.
SessionWrites(n) ==
    /\ n \in running
    /\ dirEntries[n] # NoEntry /\ dirEntries[n].modTime # Now
    /\ dirEntries' = [dirEntries EXCEPT ![n] = [isDir |-> FALSE, modTime |-> Now]]
    /\ purgeCall' = NoCall
    /\ UNCHANGED <<running, nonPurgeVars>>

\* A running proxy ends: it closes its log and releases its lock.
SessionEnds(n) ==
    /\ n \in running
    /\ running' = running \ {n}
    /\ UNCHANGED <<dirEntries, purgeCall, nonPurgeVars>>

\* What cleanupOldSessionLogs(baseLogPath, maxAge) does to the directory;
\* readable: os.ReadDir succeeds
PurgeEffect(baseLogPath, maxAge, readable) ==
    LET cutoff == Now - maxAge
    IN  /\ dirEntries' =
              IF readable
              THEN [n \in EntryNames |->
                       IF n \in Removed(dirEntries, baseLogPath, cutoff)
                       THEN NoEntry ELSE dirEntries[n]]
              ELSE dirEntries
        /\ purgeCall' = [called |-> TRUE, base |-> baseLogPath, cutoff |-> cutoff,
                         before |-> dirEntries, err |-> ~readable]

\* A call of cleanupOldSessionLogs on its own
cleanupOldSessionLogs(baseLogPath, maxAge, readable) ==
    /\ PurgeEffect(baseLogPath, maxAge, readable)
    /\ UNCHANGED <<running, nonPurgeVars>>

PurgeNext ==
    \/ \E n \in EntryNames : \E e \in Entries : CreateEntry(n, e)
    \/ \E b \in BaseLogPaths : \E maxAge \in Times : \E readable \in BOOLEAN :
          cleanupOldSessionLogs(b, maxAge, readable)

\* Proxies of other sessions start, write and end, and drivers that start
\* purge the directory as RunProxyWithIO does.
SessionPurgeNext ==
    \/ \E b \in BaseLogPaths : \E sid \in OtherSessionIDs : \E t \in Times :
          SessionStarts(b, sid, t)
    \/ \E n \in EntryNames : SessionWrites(n) \/ SessionEnds(n)
    \/ \E b \in BaseLogPaths : \E readable \in BOOLEAN :
          cleanupOldSessionLogs(b, PurgeMaxAge, readable)

(* ------------------------------------------------ driver: RunProxyWithIO *)

\* The process that runs RunProxyWithIO; the other processes are other proxies.
Driver == 1

\* opts.LogFile, opts.SessionID and the session log path derived from them
DriverLogFile == <<"a", DOT, "a">>

DriverSessionID == <<"s">>

SessionLog == GetSessionBasedLogFile(DriverLogFile, DriverSessionID)

\* A sibling log of another session, with an empty session ID
SiblingLog == <<"a", DOT, DOT, "a">>

\* A plausible slip: only the proxy's own PID in the marker counts.
MarkerSetToOwnPid(m) == m = "self"

\* os.Getenv("SMART_SUGGESTION_PROXY_ACTIVE") != ""
MarkerSet(m) == m # "unset"

\* A plausible slip: the deferred calls run in the order they were registered.
DeferAtBottom(stack, call) == stack \o <<call>>

\* defer: the call goes on top of the deferred calls
Defer(stack, call) == <<call>> \o stack

\* A plausible slip: the return leaves without running the deferred calls.
ReturnSkipsDeferred(stack) == "returned"

\* return: the deferred calls run first, if there are any
ReturnVia(stack) == IF stack = <<>> THEN "returned" ELSE "unwind"

\* A plausible slip: the driver goes on after createProcessLock returned,
\* whatever it returned.
LockTried(p) == pc[p] = "held" \/ (pc[p] = "idle" /\ result[p] # "none")

\* createProcessLock returned the lock file and no error: p holds the lock
LockHeld(p) == pc[p] = "held"

\* A plausible slip: the session log is opened before the shell is started.
AfterPurgeOpensLog == "removelog"

\* After cleanupOldSessionLogs comes pty.Start
AfterPurge == "spawn"

\* A plausible slip: after the first deferred call the others are dropped.
RestDropped(stack) == <<>>

\* The deferred calls still to run after the top one ran
Rest(stack) == Tail(stack)

\* A plausible slip: a failed os.Remove of the old session log is fatal.
AfterRemoveFatal(failed) == IF failed THEN "unwind" ELSE "openlog"

\* After the os.Remove attempt comes os.OpenFile, whether it failed or not
AfterRemove(failed) == "openlog"

\* A plausible slip: the tee goes down its list of writers after an error.
AfterStdoutGoesOn(ok) == "log"

\* io.MultiWriter: when stdout.Write returned an error, the write stops and
\* io.Copy returns; else the next writer is the bounded writer
AfterStdout(ok) == IF ok THEN "log" ELSE "done"

\* When limitedLogWriter.Write returned an error, io.MultiWriter returns it
\* and io.Copy returns; else io.Copy reads on
AfterLog(ok) == IF ok THEN "copy" ELSE "done"

\* A plausible slip: the error of c.Wait() is returned.
WaitResultPropagates(err) == err

\* _ = c.Wait(); return nil
WaitResult(err) == "nil"

\* A plausible slip: the marker is set to the empty string.
SetenvProxyActiveEmpty(m) == "unset"

\* A plausible slip: the marker is not set at all.
SetenvProxyActiveSkipped(m) == m

\* os.Setenv("SMART_SUGGESTION_PROXY_ACTIVE", fmt.Sprintf("%d", os.Getpid()))
SetenvProxyActive(m) == "self"

\* A plausible slip: the wait group counts one goroutine.
WaitGroupDoneAfterOne(i, o) == i = "done" \/ o = "done"

\* wg.Add(2), and wg.Done() deferred in each copy goroutine: wg.Wait() returns
\* once both have returned
WaitGroupDone(i, o) == i = "done" /\ o = "done"

\* The log directories RunProxyWithIO may find: the session log absent, an old
\* or a new file, or a directory; a stale sibling log present or not.
DriverDirs ==
    {[n \in EntryNames |->
         IF n = SessionLog THEN e ELSE IF n = SiblingLog THEN sib ELSE NoEntry] :
       e \in {NoEntry, [isDir |-> FALSE, modTime |-> 0],
              [isDir |-> FALSE, modTime |-> Now], [isDir |-> TRUE, modTime |-> 0]},
       sib \in {NoEntry, [isDir |-> FALSE, modTime |-> 0]}}

\* The lock path when RunProxyWithIO is called: empty, a leftover lock file,
\* or the lock file of another proxy that holds the lock.
DriverLockInit ==
    \/ LockInit
    \/ \E q \in Procs \ {Driver} :
          /\ alive = [p \in Procs |-> TRUE]
          /\ pc = [p \in Procs |-> IF p = q THEN "held" ELSE "idle"]
          /\ lockPath = {q}
          /\ content = [i \in Inodes |-> IF i = q THEN PidText(q) ELSE <<>>]
          /\ flocked = {q}
          /\ result = [p \in Procs |-> IF p = q THEN "ok" ELSE "none"]
          /\ found = [p \in Procs |-> IF p = q THEN "absent" ELSE "none"]
          /\ staleIno = [p \in Procs |-> {}]
          /\ interfered = [p \in Procs |-> FALSE]
          /\ releases = 0

DriverIdle ==
    /\ dpc = "marker"
    /\ defers = <<>>
    /\ ret = "none"
    /\ child = "none"
    /\ ptmx = "none"
    /\ rawMode = FALSE
    /\ logHandle = "none"
    /\ spawnFailed = FALSE
    /\ removeFailed = FALSE
    /\ released = <<>>
    /\ childAtOpen = "unknown"
    /\ inTask = "none"
    /\ outTask = "none"
    /\ reads = 0
    /\ outSink = <<>>
    /\ logSink = <<>>
    /\ logFailed = FALSE
    /\ sigPending = FALSE
    /\ how = "none"

DriverInit ==
    /\ DriverLockInit
    /\ DriverIdle
    /\ stdin \in {"blocked", "eof"}
    /\ marker \in {"unset", "other"}
    /\ dirEntries \in DriverDirs
    /\ dirAtCall = dirEntries
    /\ purgeCall = NoCall
    /\ running = {}

\* if os.Getenv("SMART_SUGGESTION_PROXY_ACTIVE") != "" { return nil }
CheckMarker ==
    /\ dpc = "marker"
    /\ IF MarkerSet(marker)
       THEN /\ ret' = "nil"
            /\ dpc' = ReturnVia(defers)
       ELSE /\ dpc' = "createProcessLock"
            /\ UNCHANGED ret
    /\ UNCHANGED <<marker, defers, child, ptmx, rawMode, logHandle, spawnFailed,
                   dirAtCall, lockVars, purgeVars, nonDriverVars,
                   removeFailed, released, childAtOpen, copyVars>>

\* createProcessLock(sessionLockFile), one system call at a time
DriverAcquireStep ==
    /\ dpc = "createProcessLock"
    /\ ~(pc[Driver] = "idle" /\ result[Driver] # "none")
    /\ AcquireStep(Driver)

\* createProcessLock returned an error
LockFailed ==
    /\ dpc = "createProcessLock"
    /\ pc[Driver] = "idle" /\ result[Driver] # "none"
    /\ ret' = "failed to create process lock"
    /\ dpc' = ReturnVia(defers)
    /\ UNCHANGED <<marker, defers, child, ptmx, rawMode, logHandle, spawnFailed,
                   dirAtCall, lockVars, purgeVars, nonDriverVars,
                   removeFailed, released, childAtOpen, copyVars>>

\* createProcessLock returned the lock file: defer cleanupProcessLock
LockAcquired ==
    /\ dpc = "createProcessLock"
    /\ LockHeld(Driver)
    /\ defers' = Defer(defers, "cleanupProcessLock")
    /\ dpc' = "setenv"
    /\ UNCHANGED <<marker, ret, child, ptmx, rawMode, logHandle, spawnFailed,
                   dirAtCall, lockVars, purgeVars, nonDriverVars,
                   removeFailed, released, childAtOpen, copyVars>>

\* os.Setenv("SMART_SUGGESTION_PROXY_ACTIVE", pid)
Setenv ==
    /\ dpc = "setenv"
    /\ marker' = SetenvProxyActive(marker)
    /\ dpc' = "purge"
    /\ UNCHANGED <<defers, ret, child, ptmx, rawMode, logHandle, spawnFailed,
                   dirAtCall, lockVars, purgeVars, nonDriverVars,
                   removeFailed, released, childAtOpen, copyVars>>

\* cleanupOldSessionLogs(opts.LogFile, 24*time.Hour); its error is only logged
PurgeOldLogs ==
    /\ dpc = "purge"
    /\ \E readable \in BOOLEAN : PurgeEffect(DriverLogFile, PurgeMaxAge, readable)
    /\ dpc' = AfterPurge
    /\ UNCHANGED <<marker, defers, ret, child, ptmx, rawMode, logHandle,
                   spawnFailed, dirAtCall, running, lockVars, nonDriverVars,
                   removeFailed, released, childAtOpen, copyVars>>

\* pty.Start(execCommand(shell)); on success defer ptmx.Close
Spawn ==
    /\ dpc = "spawn"
    /\ \E ok \in BOOLEAN :
          IF ok
          THEN /\ child' = "running"
               /\ ptmx' = "open"
               /\ defers' = Defer(defers, "ptmx.Close")
               /\ dpc' = "winch"
               /\ UNCHANGED <<ret, spawnFailed>>
          ELSE /\ ret' = "failed to start PTY"
               /\ spawnFailed' = TRUE
               /\ dpc' = ReturnVia(defers)
               /\ UNCHANGED <<child, ptmx, defers>>
    /\ UNCHANGED <<marker, rawMode, logHandle, dirAtCall, lockVars, purgeVars,
                   nonDriverVars,
                   removeFailed, released, childAtOpen, copyVars>>

\* signal.Notify(ch, SIGWINCH), the relay goroutine, the first resize, and
\* defer signal.Stop(ch); close(ch)
StartResizeRelay ==
    /\ dpc = "winch"
    /\ defers' = Defer(defers, "signal.Stop(ch)")
    /\ dpc' = "rawmode"
    /\ UNCHANGED <<marker, ret, child, ptmx, rawMode, logHandle, spawnFailed,
                   dirAtCall, lockVars, purgeVars, nonDriverVars,
                   removeFailed, released, childAtOpen, copyVars>>

\* term.MakeRaw when stdin is a terminal; on success defer term.Restore
MakeRaw ==
    /\ dpc = "rawmode"
    /\ \E isTerminal \in BOOLEAN : \E ok \in BOOLEAN :
          IF ~isTerminal
          THEN /\ dpc' = "removelog"
               /\ UNCHANGED <<rawMode, defers, ret>>
          ELSE IF ok
          THEN /\ rawMode' = TRUE
               /\ defers' = Defer(defers, "term.Restore")
               /\ dpc' = "removelog"
               /\ UNCHANGED ret
          ELSE /\ ret' = "failed to set raw mode"
               /\ dpc' = ReturnVia(defers)
               /\ UNCHANGED <<rawMode, defers>>
    /\ UNCHANGED <<marker, child, ptmx, logHandle, spawnFailed, dirAtCall,
                   lockVars, purgeVars, nonDriverVars,
                   removeFailed, released, childAtOpen, copyVars>>

\* os.Stat(sessionLogFile) and os.Remove of what is there; when os.Remove
\* fails (a directory that is not empty, a directory that may not be written)
\* the failure is only logged
RemoveOldLog ==
    /\ dpc = "removelog"
    /\ IF dirEntries[SessionLog] = NoEntry
       THEN UNCHANGED <<dirEntries, removeFailed>>
       ELSE \E ok \in BOOLEAN :
               IF ok
               THEN /\ dirEntries' = [dirEntries EXCEPT ![SessionLog] = NoEntry]
                    /\ UNCHANGED removeFailed
               ELSE /\ removeFailed' = TRUE
                    /\ UNCHANGED dirEntries
    /\ dpc' = AfterRemove(removeFailed')
    /\ UNCHANGED <<marker, defers, ret, child, ptmx, rawMode, logHandle,
                   spawnFailed, dirAtCall, purgeCall, running, lockVars,
                   nonDriverVars,
                   released, childAtOpen, copyVars>>

\* os.OpenFile(sessionLogFile, O_CREATE|O_WRONLY|O_APPEND); on success defer
\* logFile.Close.  A directory cannot be opened for writing.
OpenLog ==
    /\ dpc = "openlog"
    /\ childAtOpen' = child
    /\ \E ok \in BOOLEAN :
          IF ok /\ ~dirEntries[SessionLog].isDir
          THEN /\ dirEntries' =
                     IF dirEntries[SessionLog] = NoEntry
                     THEN [dirEntries EXCEPT
                              ![SessionLog] = [isDir |-> FALSE, modTime |-> Now]]
                     ELSE dirEntries
               /\ logHandle' = "open"
               /\ defers' = Defer(defers, "logFile.Close")
               /\ dpc' = "start"
               /\ UNCHANGED ret
          ELSE /\ ret' = "failed to open session log file"
               /\ dpc' = ReturnVia(defers)
               /\ UNCHANGED <<dirEntries, logHandle, defers>>
    /\ UNCHANGED <<marker, child, ptmx, rawMode, spawnFailed, dirAtCall,
                   purgeCall, running, lockVars, nonDriverVars, removeFailed,
                   released,
                   copyVars>>

\* newLineLimitedWriter, io.MultiWriter(stdout, limitedLogWriter),
\* signal.Notify(sigCh, SIGINT, SIGTERM) with defer signal.Stop(sigCh), and
\* the two copy goroutines
StartCopying ==
    /\ dpc = "start"
    /\ defers' = Defer(defers, "signal.Stop(sigCh)")
    /\ inTask' = "copy"
    /\ outTask' = "copy"
    /\ dpc' = "run"
    /\ UNCHANGED <<marker, ret, child, ptmx, rawMode, logHandle, spawnFailed,
                   dirAtCall, lockVars, purgeVars, nonDriverVars, removeFailed,
                   released, childAtOpen, stdin, reads, outSink, logSink,
                   logFailed, sigPending, how>>

\* What only the copy goroutines and their surroundings leave alone
copyFrame == <<dpc, marker, defers, ret, ptmx, rawMode, logHandle, spawnFailed,
               dirAtCall, removeFailed, released, childAtOpen, lockVars,
               purgeVars, nonDriverVars>>

\* The shell exits.
ChildExits ==
    /\ child = "running"
    /\ child' = "exited"
    /\ UNCHANGED <<copyFrame, copyVars>>

\* The user types: stdin has input.
UserTypes ==
    /\ inTask = "copy" /\ dpc # "returned"
    /\ stdin = "blocked"
    /\ stdin' = "data"
    /\ UNCHANGED <<copyFrame, child, inTask, outTask, reads, outSink, logSink,
                   logFailed, sigPending, how>>

\* io.Copy(ptmx, stdin): a Read of stdin that returns, and the Write to the
\* pty of what it read.  The Read blocks while stdin has no input; at its end
\* of file the copy ends.  The Write succeeds while the shell has the pty
\* open; once the shell is gone it may still succeed or fail, and it fails on
\* a closed pty: a failed Write ends the copy.
InCopy ==
    /\ inTask = "copy" /\ dpc # "returned"
    /\ stdin # "blocked"
    /\ IF stdin = "eof"
       THEN /\ inTask' = "done"
            /\ UNCHANGED stdin
       ELSE \E ok \in BOOLEAN :
               /\ (child = "running" /\ ptmx = "open") => ok
               /\ ptmx = "closed" => ~ok
               /\ stdin' = "blocked"
               /\ inTask' = IF ok THEN "copy" ELSE "done"
    /\ UNCHANGED <<copyFrame, child, outTask, reads, outSink, logSink,
                   logFailed, sigPending, how>>

\* io.Copy(teeWriter, ptmx): a Read of the pty returns the next chunk of the
\* shell's output.
OutRead ==
    /\ outTask = "copy" /\ dpc # "returned"
    /\ ptmx = "open" /\ child = "running"
    /\ reads < MaxReads
    /\ reads' = reads + 1
    /\ outTask' = "stdout"
    /\ UNCHANGED <<copyFrame, child, stdin, inTask, outSink, logSink, logFailed,
                   sigPending, how>>

\* The Read of the pty fails: the shell is gone, or the pty is closed.  The
\* copy ends.
OutReadFails ==
    /\ outTask = "copy" /\ dpc # "returned"
    /\ child # "running" \/ ptmx = "closed"
    /\ outTask' = "done"
    /\ UNCHANGED <<copyFrame, child, stdin, inTask, reads, outSink, logSink,
                   logFailed, sigPending, how>>

\* teeWriter.Write, first writer: stdout.Write(chunk)
TeeStdout ==
    /\ outTask = "stdout" /\ dpc # "returned"
    /\ \E ok \in BOOLEAN :
          /\ outSink' = IF ok THEN Append(outSink, reads) ELSE outSink
          /\ outTask' = AfterStdout(ok)
    /\ UNCHANGED <<copyFrame, child, stdin, inTask, reads, logSink, logFailed,
                   sigPending, how>>

\* teeWriter.Write, second writer: limitedLogWriter.Write(chunk) up to the
\* file.Truncate(0) and file.Seek(0, 0) of its flush, which fail on a closed
\* file and may fail on an open one; from here to the end of the rewrite the
\* file holds less than the ring
TeeLog ==
    /\ outTask = "log" /\ dpc # "returned"
    /\ logSink' = Append(logSink, reads)
    /\ \E ok \in BOOLEAN :
          /\ logHandle = "closed" => ~ok
          /\ logFailed' = (logFailed \/ ~ok)
          /\ outTask' = IF ok THEN "flush" ELSE AfterLog(ok)
    /\ UNCHANGED <<copyFrame, child, stdin, inTask, reads, outSink, sigPending,
                   how>>

\* The rest of that Write: the file.WriteString of every line of the ring,
\* which fails on a closed file and may fail on an open one, and the return
TeeLogRewrite ==
    /\ outTask = "flush" /\ dpc # "returned"
    /\ \E ok \in BOOLEAN :
          /\ logHandle = "closed" => ~ok
          /\ logFailed' = (logFailed \/ ~ok)
          /\ outTask' = AfterLog(ok)
    /\ UNCHANGED <<copyFrame, child, stdin, inTask, reads, outSink, logSink,
                   sigPending, how>>

\* A SIGINT or SIGTERM is sent to the proxy while it waits in select.
SignalArrives ==
    /\ dpc = "run"
    /\ ~sigPending
    /\ sigPending' = TRUE
    /\ UNCHANGED <<copyFrame, child, stdin, inTask, outTask, reads, outSink,
                   logSink, logFailed, how>>

\* select, case <-done: wg.Wait() returned, both copy goroutines are done
SelectDone ==
    /\ dpc = "run"
    /\ WaitGroupDone(inTask, outTask)
    /\ how' = "done"
    /\ dpc' = "wait"
    /\ UNCHANGED <<marker, defers, ret, child, ptmx, rawMode, logHandle,
                   spawnFailed, dirAtCall, lockVars, purgeVars, nonDriverVars,
                   removeFailed, released, childAtOpen, stdin, inTask, outTask,
                   reads, outSink, logSink, logFailed, sigPending>>

\* select, case sig := <-sigCh
SelectSignal ==
    /\ dpc = "run"
    /\ sigPending
    /\ sigPending' = FALSE
    /\ how' = "signal"
    /\ dpc' = "wait"
    /\ UNCHANGED <<marker, defers, ret, child, ptmx, rawMode, logHandle,
                   spawnFailed, dirAtCall, lockVars, purgeVars, nonDriverVars,
                   removeFailed, released, childAtOpen, stdin, inTask, outTask,
                   reads, outSink, logSink, logFailed>>

\* _ = c.Wait() returns once the shell has exited, with the shell's exit
\* status as its error; return nil
WaitChild ==
    /\ dpc = "wait"
    /\ child = "exited"
    /\ child' = "reaped"
    /\ \E err \in {"nil", "exit status 1"} : ret' = WaitResult(err)
    /\ dpc' = ReturnVia(defers)
    /\ UNCHANGED <<marker, defers, ptmx, rawMode, logHandle, spawnFailed,
                   dirAtCall, lockVars, purgeVars, nonDriverVars, removeFailed,
                   released, childAtOpen, copyVars>>

\* A deferred call other than cleanupProcessLock runs
RunDeferred ==
    /\ dpc = "unwind"
    /\ defers # <<>> /\ Head(defers) # "cleanupProcessLock"
    /\ defers' = Rest(defers)
    /\ released' = Append(released, Head(defers))
    /\ logHandle' = IF Head(defers) = "logFile.Close" THEN "closed" ELSE logHandle
    /\ rawMode' = IF Head(defers) = "term.Restore" THEN FALSE ELSE rawMode
    /\ ptmx' = IF Head(defers) = "ptmx.Close" THEN "closed" ELSE ptmx
    /\ UNCHANGED <<dpc, marker, ret, child, spawnFailed, dirAtCall, lockVars,
                   purgeVars, nonDriverVars, removeFailed, childAtOpen, copyVars>>

\* The deferred cleanupProcessLock(lockFile, sessionLockFile), one system
\* call at a time
DriverReleaseStep ==
    /\ dpc = "unwind"
    /\ defers # <<>> /\ Head(defers) = "cleanupProcessLock"
    /\ ReleaseStep(Driver)

\* cleanupProcessLock returned
ReleaseReturned ==
    /\ dpc = "unwind"
    /\ defers # <<>> /\ Head(defers) = "cleanupProcessLock"
    /\ pc[Driver] = "idle"
    /\ defers' = Rest(defers)
    /\ released' = Append(released, Head(defers))
    /\ UNCHANGED <<dpc, marker, ret, child, ptmx, rawMode, logHandle, spawnFailed,
                   dirAtCall, lockVars, purgeVars, nonDriverVars, removeFailed,
                   childAtOpen, copyVars>>

\* RunProxyWithIO returns to its caller
Return ==
    /\ dpc = "unwind"
    /\ defers = <<>>
    /\ dpc' = "returned"
    /\ UNCHANGED <<marker, defers, ret, child, ptmx, rawMode, logHandle,
                   spawnFailed, dirAtCall, lockVars, purgeVars, nonDriverVars,
                   removeFailed, released, childAtOpen, copyVars>>

\* The process calls RunProxyWithIO again after it returned: the locals of the
\* call are new, the environment of the process and the files are as the
\* earlier call left them.
CallAgain ==
    /\ dpc = "returned"
    /\ dpc' = "marker" /\ defers' = <<>> /\ ret' = "none"
    /\ child' = "none" /\ ptmx' = "none" /\ rawMode' = FALSE
    /\ logHandle' = "none" /\ spawnFailed' = FALSE /\ removeFailed' = FALSE
    /\ released' = <<>> /\ childAtOpen' = "unknown"
    /\ inTask' = "none" /\ outTask' = "none" /\ reads' = 0
    /\ outSink' = <<>> /\ logSink' = <<>> /\ logFailed' = FALSE
    /\ sigPending' = FALSE /\ how' = "none"
    /\ dirAtCall' = dirEntries
    /\ purgeCall' = NoCall
    /\ result' = [result EXCEPT ![Driver] = "none"]
    /\ UNCHANGED <<marker, stdin, dirEntries, running, alive, pc, lockPath,
                   content,
                   flocked, found, staleIno, interfered, releases,
                   nonDriverVars>>

\* Another proxy that holds the lock releases it, or dies.
OtherProxyStep == \E q \in Procs \ {Driver} : ReleaseStep(q) \/ Crash(q)

DriverNext ==
    \/ CheckMarker
    \/ DriverAcquireStep
    \/ LockFailed
    \/ LockAcquired
    \/ Setenv
    \/ PurgeOldLogs
    \/ Spawn
    \/ StartResizeRelay
    \/ MakeRaw
    \/ RemoveOldLog
    \/ OpenLog
    \/ StartCopying
    \/ ChildExits
    \/ UserTypes
    \/ InCopy
    \/ OutRead
    \/ OutReadFails
    \/ TeeStdout
    \/ TeeLog
    \/ TeeLogRewrite
    \/ SignalArrives
    \/ SelectDone
    \/ SelectSignal
    \/ WaitChild
    \/ RunDeferred
    \/ DriverReleaseStep
    \/ ReleaseReturned
    \/ Return
    \/ OtherProxyStep

(* ---------------------------------------------- resize relay: actions *)

\* A plausible slip: ch is made without a buffer, so a signal is delivered
\* only while the relay waits in its receive.
NotifyUnbuffered(n, receiving) == IF receiving /\ n < ChanCap THEN n + 1 ELSE n

\* os/signal delivers without blocking: the signal goes into ch when ch has
\* room and is dropped when ch is full
Notify(n, receiving) == IF n < ChanCap THEN n + 1 ELSE n

\* The relay goroutine has been started and signal.Notify(ch, SIGWINCH) is
\* in force; the pty has the size it was opened with.
RelayInit ==
    /\ stdinKind \in {"reader", "file", "tty"}
    /\ termSize = 1
    /\ ptySize = 0
    /\ winch = 0
    /\ mainSent = FALSE
    /\ rpc = "recv"
    /\ rsize = 0
    /\ relayStopped = FALSE
    /\ relayErrs = FALSE
    /\ dropped = FALSE

\* ch <- syscall.SIGWINCH in RunProxyWithIO: blocks while ch is full
MainFirstResize ==
    /\ ~mainSent /\ winch < ChanCap
    /\ winch' = winch + 1
    /\ mainSent' = TRUE
    /\ UNCHANGED <<stdinKind, termSize, ptySize, rpc, rsize, relayStopped,
                   relayErrs, dropped, nonRelayVars>>

\* The user resizes the terminal and the kernel sends SIGWINCH, which
\* os/signal passes to ch as long as signal.Stop(ch) has not run.
TerminalResized ==
    /\ termSize <= MaxResizes
    /\ termSize' = termSize + 1
    /\ IF relayStopped
       THEN UNCHANGED <<winch, dropped>>
       ELSE /\ winch' = Notify(winch, rpc = "recv")
            /\ dropped' = (dropped \/ winch' = winch)
    /\ UNCHANGED <<stdinKind, ptySize, mainSent, rpc, rsize, relayStopped,
                   relayErrs, nonRelayVars>>

\* for range ch: the relay receives a signal; if f, ok := stdin.(*os.File)
RelayRecv ==
    /\ rpc = "recv" /\ winch > 0
    /\ winch' = winch - 1
    /\ rpc' = IF stdinKind = "reader" THEN "recv" ELSE "get"
    /\ UNCHANGED <<stdinKind, termSize, ptySize, mainSent, rsize, relayStopped,
                   relayErrs, dropped, nonRelayVars>>

\* pty.InheritSize(f, ptmx), first half: the size of stdin is read, which
\* fails when stdin is no terminal; the error is logged and the loop goes on
RelayGetSize ==
    /\ rpc = "get"
    /\ IF stdinKind = "tty"
       THEN /\ rsize' = termSize
            /\ rpc' = "set"
            /\ UNCHANGED relayErrs
       ELSE /\ relayErrs' = TRUE
            /\ rpc' = "recv"
            /\ UNCHANGED rsize
    /\ UNCHANGED <<stdinKind, termSize, ptySize, winch, mainSent, relayStopped,
                   dropped, nonRelayVars>>

\* pty.InheritSize(f, ptmx), second half: the pty is given the size read.
\* While the session runs the pty is open; once the deferred calls run it
\* may be closed, the call then fails, the error is logged.
RelaySetSize ==
    /\ rpc = "set"
    /\ \E ok \in BOOLEAN :
          /\ ~relayStopped => ok
          /\ ptySize' = IF ok THEN rsize ELSE ptySize
          /\ relayErrs' = (relayErrs \/ ~ok)
    /\ rpc' = "recv"
    /\ UNCHANGED <<stdinKind, termSize, winch, mainSent, rsize, relayStopped,
                   dropped, nonRelayVars>>

\* The deferred signal.Stop(ch); close(ch), registered after the first send
StopRelay ==
    /\ mainSent /\ ~relayStopped
    /\ relayStopped' = TRUE
    /\ UNCHANGED <<stdinKind, termSize, ptySize, winch, mainSent, rpc, rsize,
                   relayErrs, dropped, nonRelayVars>>

\* for range ch ends: ch is closed and empty
RelayEnds ==
    /\ rpc = "recv" /\ winch = 0 /\ relayStopped
    /\ rpc' = "ended"
    /\ UNCHANGED <<stdinKind, termSize, ptySize, winch, mainSent, rsize,
                   relayStopped, relayErrs, dropped, nonRelayVars>>

\* The steps of the relay goroutine and of the send that starts it
RelaySteps ==
    MainFirstResize \/ RelayRecv \/ RelayGetSize \/ RelaySetSize \/ RelayEnds

RelayNext == RelaySteps \/ TerminalResized \/ StopRelay

(* ------------------------------------------------------ specifications *)

\* Each component as it is while a specification does not use it.
WriterUnused ==
    /\ ctor = "direct" /\ arg = 0 /\ wstate = "ready" /\ maxLines = 0
    /\ lines = <<>> /\ buf = <<>> /\ file = <<>> /\ written = <<>>

LockUnused == LockInit /\ lockPath = {}

NormUnused == NormInit

PathUnused == PathInit

PurgeUnused == PurgeInit

ConcUnused == ConcInit

RelayUnused == RelayInit /\ stdinKind = "reader"

DriverUnused ==
    /\ DriverIdle
    /\ marker = "unset"
    /\ dirAtCall = [n \in EntryNames |-> NoEntry]
    /\ stdin = "eof"

LockNext == \E p \in Procs : AcquireStep(p) \/ ReleaseStep(p) \/ Crash(p)

vars == <<lockVars, writerVars, normVars, pathVars, purgeVars, driverVars,
         concVars, relayVars>>

\* Any number of processes acquiring, releasing and dying, on a path that is
\* empty or holds a leftover lock file.
LockSpecInit ==
    LockInit /\ WriterUnused /\ NormUnused /\ PathUnused /\ PurgeUnused /\ DriverUnused /\ ConcUnused /\ RelayUnused

LockSpec == LockSpecInit /\ [][LockNext]_vars

\* The same processes on a path that starts with no lock file.
LockFreshInit ==
    /\ LockInit /\ lockPath = {}
    /\ WriterUnused /\ NormUnused /\ PathUnused /\ PurgeUnused /\ DriverUnused /\ ConcUnused /\ RelayUnused

LockFreshSpec == LockFreshInit /\ [][LockNext]_vars

\* One bounded writer and any sequence of Write calls on it.
WriterSpecInit ==
    WriterInit /\ LockUnused /\ NormUnused /\ PathUnused /\ PurgeUnused /\ DriverUnused /\ ConcUnused /\ RelayUnused

WriterSpec == WriterSpecInit /\ [][WriterNext]_vars

\* The normaliser on every text of up to MaxInput bytes, byte by byte.
NormSpecInit ==
    NormInit /\ LockUnused /\ WriterUnused /\ PathUnused /\ PurgeUnused /\ DriverUnused /\ ConcUnused /\ RelayUnused

NormSpec == NormSpecInit /\ [][NormNext]_vars

\* GetSessionBasedLogFile on every bounded base path and session ID.
PathSpecInit ==
    PathInit /\ LockUnused /\ WriterUnused /\ NormUnused /\ PurgeUnused /\ DriverUnused /\ ConcUnused /\ RelayUnused

PathSpec == PathSpecInit /\ [][PathNext]_vars

\* A log directory that fills up, and cleanupOldSessionLogs called on it.
PurgeSpecInit ==
    PurgeInit /\ LockUnused /\ WriterUnused /\ NormUnused /\ PathUnused /\ DriverUnused /\ ConcUnused /\ RelayUnused

PurgeSpec == PurgeSpecInit /\ [][PurgeNext]_vars

\* A log directory in which the proxies of several sessions keep their logs,
\* each driver purging it at its start.
SessionPurgeInit == PurgeSpecInit

SessionPurgeSpec == SessionPurgeInit /\ [][SessionPurgeNext]_vars

\* One call of RunProxyWithIO, next to other proxies that release the lock or
\* die.
DriverSpecInit ==
    DriverInit /\ WriterUnused /\ NormUnused /\ PathUnused /\ ConcUnused /\ RelayUnused

DriverSpec == DriverSpecInit /\ [][DriverNext]_vars

\* One writer, constructed with a positive bound, and two tasks that call Write
\* on it whenever they like.
ConcWriterInit ==
    /\ ConcInit
    /\ ctor = "direct" /\ arg \in 1 .. MaxN /\ maxLines = arg /\ wstate = "ready"
    /\ lines = <<>> /\ buf = <<>> /\ file = <<>> /\ written = <<>>
    /\ LockUnused /\ NormUnused /\ PathUnused /\ PurgeUnused /\ DriverUnused /\ RelayUnused

ConcWriterSpec == ConcWriterInit /\ [][ConcNext]_vars

\* The steps of the goroutine that runs RunProxyWithIO
DriverControl ==
    \/ CheckMarker \/ DriverAcquireStep \/ LockFailed \/ LockAcquired
    \/ Setenv \/ PurgeOldLogs \/ Spawn \/ StartResizeRelay \/ MakeRaw
    \/ RemoveOldLog \/ OpenLog \/ StartCopying
    \/ SelectDone \/ SelectSignal \/ WaitChild
    \/ RunDeferred \/ DriverReleaseStep \/ ReleaseReturned \/ Return

\* The same call under a fair scheduler: a goroutine that can take a step
\* takes one.  Nothing obliges the shell to exit, the user to type, or anybody
\* to send a signal, and a Read of the pty with the shell alive may block for
\* ever.
\* It is called with an empty log directory, and with the lock path free or
\* the lock held by another proxy.
DriverLiveInit ==
    /\ DriverSpecInit
    /\ marker = "unset"
    /\ lockPath # {PreexistingInode}
    /\ dirEntries = [n \in EntryNames |-> NoEntry]

DriverLiveSpec ==
    /\ DriverLiveInit /\ [][DriverNext]_vars
    /\ WF_vars(DriverControl)
    /\ WF_vars(InCopy)
    /\ WF_vars(OutReadFails)
    /\ WF_vars(TeeStdout)
    /\ WF_vars(TeeLog)
    /\ WF_vars(TeeLogRewrite)

\* RunProxyWithIO called again and again in one process, each call after the
\* one before has returned.
DriverAgainInit == DriverLiveInit

DriverAgainNext == DriverNext \/ CallAgain

DriverAgainSpec == DriverAgainInit /\ [][DriverAgainNext]_vars

\* The resize relay of one session, the terminal resized at any time, the
\* session torn down at any time.
RelaySpecInit ==
    /\ RelayInit
    /\ LockUnused /\ WriterUnused /\ NormUnused /\ PathUnused /\ PurgeUnused
    /\ DriverUnused /\ ConcUnused

\* The same under a fair scheduler: the relay goroutine and the driver's
\* first send take the steps they can take.  Nothing obliges the user to
\* resize the terminal or the session to end.
RelayLiveSpec ==
    /\ RelaySpecInit /\ [][RelayNext]_vars
    /\ WF_vars(RelaySteps)

(* ------------------------------------------------------- lock: claims *)

Holders == {p \in Procs : pc[p] = "held"}

Returned(p) == pc[p] \in {"idle", "held"} /\ result[p] # "none"

\* Nothing but createProcessLock steps have been taken so far: no process has
\* released, is releasing, or has died.
OnlyAcquires == releases = 0 /\ \A p \in Procs : alive[p] /\ pc[p] # "unlink"

\* C1: concurrent createProcessLock calls on a path that starts with no lock
\* file: never two holders at once, and once every caller has returned exactly
\* one of them holds the lock.
C1_FreshPathExactlyOneHolder ==
    OnlyAcquires =>
        /\ Cardinality(Holders) <= 1
        /\ (\A p \in Procs : Returned(p)) => Cardinality(Holders) = 1

\* C2: of the acquirers that found the same stale lock file, at most one ends
\* up holding the lock.
C2_StaleReclaimAtMostOneHolder ==
    \A p \in Holders : \A q \in Holders :
        (staleIno[p] # {} /\ staleIno[p] = staleIno[q]) => p = q

\* C3: when cleanupProcessLock returns the lock file is gone, and a
\* createProcessLock whose create-only open finds no file never fails; this
\* holds in every cycle of acquire and release.
C3_ReleaseRemovesAndNextAcquireSucceeds ==
    [][\A p \in Procs :
          /\ (pc[p] = "unlink" /\ pc'[p] = "idle") => lockPath' = {}
          /\ found'[p] = "absent" => result'[p] \in {"none", "ok"}
          /\ (found'[p] = "absent" /\ pc'[p] \in {"idle", "held"}) =>
                 (pc'[p] = "held" /\ result'[p] = "ok")]_vars

\* A holder that acquired the path, empty again, after MaxCycles releases.
C3_Witness ==
    \E p \in Procs :
        pc[p] = "held" /\ found[p] = "absent" /\ result[p] = "ok" /\ releases >= MaxCycles

\* C4: a createProcessLock that finds a stale lock file (dead PID, or no PID)
\* and runs with no other process stepping during the call returns the handle,
\* and at its return the lock file holds the caller's PID and a line break.
C4_StaleLockReclaimedWhenAlone ==
    [][\A p \in Procs :
          (/\ Active(p) /\ pc'[p] \in {"idle", "held"}
           /\ found'[p] = "stale" /\ ~interfered[p])
          => (/\ pc'[p] = "held" /\ result'[p] = "ok"
              /\ lockPath' = {p}
              /\ content'[p] = PidText(p))]_vars

C4_Witness ==
    \E p \in Procs :
        /\ pc[p] = "held" /\ found[p] = "stale" /\ ~interfered[p]
        /\ staleIno[p] = {PreexistingInode}
        /\ lockPath = {p} /\ content[p] = PidText(p)

RECURSIVE CompleteLines(_)
\* The complete lines of a byte stream, each with its line feed; what follows
\* the last line feed is no line.
CompleteLines(s) ==
    IF \A i \in 1 .. Len(s) : s[i] # LF THEN <<>>
    ELSE LET k == CHOOSE i \in 1 .. Len(s) : s[i] = LF /\ \A j \in 1 .. (i - 1) : s[j] # LF
         IN  <<SubSeq(s, 1, k)>> \o CompleteLines(SubSeq(s, k + 1, Len(s)))

\* The last min(n, Len(ss)) elements of ss
LastN(ss, n) ==
    IF Len(ss) <= n THEN ss ELSE SubSeq(ss, Len(ss) - n + 1, Len(ss))

CountLF(s) == Cardinality({i \in 1 .. Len(s) : s[i] = LF})

IsSuffix(t, s) == Len(t) <= Len(s) /\ SubSeq(s, Len(s) - Len(t) + 1, Len(s)) = t

\* The bytes of the stream up to and including its last line feed
Terminated(s) == Concat(CompleteLines(s))

\* The chunk of the Write step from the current state to the next
StepChunk == SubSeq(written', Len(written) + 1, Len(written'))

C7_RingBoundedFifo ==
    /\ [](maxLines >= 1 => Len(lines) <= maxLines)
    /\ [][(wstate = "ready" /\ maxLines >= 1) =>
              lines' = LastN(lines \o CompleteLines(buf \o StepChunk), maxLines)]_vars

\* A full ring of two different lines whose oldest line was pushed out before.
C7_Witness ==
    /\ wstate = "ready" /\ maxLines >= 2 /\ Len(lines) = maxLines
    /\ Len(CompleteLines(written)) > maxLines
    /\ lines[1] # lines[2]
    /\ lines[1] # CompleteLines(written)[1]

\* C8: after every Write, whatever the bytes, the file holds at most N line
\* feeds and, unless it is empty, ends with a line feed.
C8_FileAtMostNLinesEndsWithLF ==
    wstate = "ready" =>
        /\ CountLF(file) <= maxLines
        /\ file # <<>> => file[Len(file)] = LF

\* A file of exactly N lines, after an eviction, with control bytes inside its
\* lines and a partial line pending.
C8_Witness ==
    /\ wstate = "ready" /\ maxLines >= 1
    /\ CountLF(file) = maxLines /\ CountLF(written) > maxLines
    /\ \E i \in 1 .. Len(file) : file[i] \in {"\r", "VT", "ESC"}
    /\ buf # <<>>

\* C9 as stated: a writer constructed with N <= 0 keeps every complete line
\* written so far in the file.
C9_NonPositiveKeepsEveryLine ==
    (wstate = "ready" /\ maxLines <= 0) => file = Concat(CompleteLines(written))

\* C9 amended: N <= 0 does not switch eviction off.  RunProxyWithIO never
\* constructs such a writer (a BufferLines <= 0 becomes 100); a writer
\* constructed with N = 0 evicts every line as it is pushed, so its ring and
\* its file stay empty; constructing one with N < 0 panics before any Write.
C9_NonPositiveKeepsNothing ==
    /\ ctor = "RunProxy" =>
          (wstate = "ready" /\ maxLines >= 1 /\ (arg <= 0 => maxLines = DefaultBufferLines))
    /\ (wstate = "ready" /\ maxLines = 0) => (lines = <<>> /\ file = <<>>)
    /\ (ctor = "direct" /\ arg < 0) => (wstate = "panic" /\ written = <<>> /\ file = <<>>)

\* Two complete lines were written to a writer with N = 0.
C9_Witness ==
    /\ wstate = "ready" /\ ctor = "direct" /\ maxLines = 0
    /\ Len(CompleteLines(written)) >= 2
    /\ file = <<>>

\* C10: a Write without a line feed in its bytes changes neither the ring nor
\* the file and appends its bytes to the pending buffer; the buffer never holds
\* a line feed, and the file holds only bytes that precede the last line feed
\* written.
C10_PartialStaysBuffered ==
    /\ [](wstate = "ready" =>
            /\ \A i \in 1 .. Len(buf) : buf[i] # LF
            /\ written = Terminated(written) \o buf
            /\ IsSuffix(file, Terminated(written)))
    /\ [][(wstate = "ready" /\ \A i \in 1 .. Len(StepChunk) : StepChunk[i] # LF) =>
              (lines' = lines /\ file' = file /\ buf' = buf \o StepChunk)]_vars

\* A pending partial line as long as the longest chunk (so the last Write that
\* wrote anything carried no line feed), behind a file that is not empty.
C10_Witness ==
    /\ wstate = "ready" /\ maxLines >= 1
    /\ Len(buf) >= MaxChunk /\ Len(buf) >= 1
    /\ file # <<>>

\* C11: however the stream written so far was cut into Write calls, the ring,
\* the pending buffer and the file are those that one Write of the whole
\* stream to a new writer with the same N leaves.
C11_ChunkingIsInvisible ==
    wstate = "ready" =>
        LET r == Scan(<<>>, written, maxLines)
        IN  /\ lines = r.lines
            /\ buf = r.buf
            /\ file = flush(r.lines)

\* The stream holds a complete line longer than the longest chunk, so one call
\* ended inside that line, and at least two lines, with a file that is not
\* empty.
C11_Witness ==
    /\ wstate = "ready" /\ maxLines >= 2
    /\ Len(CompleteLines(written)) >= 2
    /\ \E i \in 1 .. Len(CompleteLines(written)) :
          Len(CompleteLines(written)[i]) > MaxChunk
    /\ file # <<>> /\ file = Concat(CompleteLines(written))

\* C12 as stated: the file never holds an escape, a carriage return or a
\* vertical tab; it holds only the text that stays visible on each line.
C12_FileHoldsNoControlBytes ==
    wstate = "ready" =>
        \A i \in 1 .. Len(file) : file[i] \notin {"ESC", "\r", "VT"}

(* ------------------------------------------------- normaliser: claims *)

\* The bytes that are plain text wherever they stand: printable and not a
\* digit, which could open the body of an OSC sequence at the start of a line
PlainBytes == Printable \ OscDigits

IsPlain(s, set) == \A i \in 1 .. Len(s) : s[i] \in set

\* The number of bytes at the end of s that are the byte c
RECURSIVE TrailingRun(_, _)
TrailingRun(s, c) ==
    IF s # <<>> /\ s[Len(s)] = c
    THEN 1 + TrailingRun(SubSeq(s, 1, Len(s) - 1), c)
    ELSE 0

\* The length of the last, uncompleted line of a text
CurrentLineLen(t) == Len(t) - Len(UpToLastLF(t))

\* C13: a carriage return with no line feed after it discards the current
\* line, back to the last line break, and nothing before it, and the text
\* after it continues from column zero; a carriage return followed by a line
\* feed gives one line break and discards nothing.
C13_CarriageReturnRestartsLine ==
    /\ (nin # <<>> /\ nin[Len(nin)] = CR) =>
          nout = UpToLastLF(Normalize(SubSeq(nin, 1, Len(nin) - 1)))
    /\ (Len(nin) >= 2 /\ nin[Len(nin) - 1] = CR /\ nin[Len(nin)] = LF) =>
          nout = Normalize(SubSeq(nin, 1, Len(nin) - 2)) \o <<LF>>
    /\ IsPlain(nin, PlainBytes \cup {CR, LF}) =>
          \A k \in 1 .. Len(nin) :
              (nin[k] = CR /\ At(nin, k + 1) # LF) =>
                  nout = UpToLastLF(Normalize(SubSeq(nin, 1, k - 1)))
                             \o Normalize(SubSeq(nin, k + 1, Len(nin)))

\* A completed line, then a line that a final carriage return discards.
C13_Witness ==
    /\ Len(nin) = MaxInput /\ nin[Len(nin)] = CR
    /\ nout # <<>>
    /\ nout # Normalize(SubSeq(nin, 1, Len(nin) - 1))
    /\ nout = UpToLastLF(nout)

\* C14: k backspaces remove the last min(k, length) characters of the
\* current line and nothing else: no line break and no character of an
\* earlier line; on an empty current line they do nothing.
C14_BackspaceStaysOnLine ==
    LET k == TrailingRun(nin, BS)
        b == Normalize(SubSeq(nin, 1, Len(nin) - k))
        cut == IF k <= CurrentLineLen(b) THEN k ELSE CurrentLineLen(b)
    IN  nout = SubSeq(b, 1, Len(b) - cut)

\* Two backspaces on a line of one character that follows a line break: one
\* character goes, the line break stays.
C14_Witness ==
    /\ TrailingRun(nin, BS) >= 2
    /\ LET b == Normalize(SubSeq(nin, 1, Len(nin) - TrailingRun(nin, BS)))
       IN  /\ CurrentLineLen(b) = 1
           /\ UpToLastLF(b) # <<>>
           /\ nout = UpToLastLF(b)

\* A complete zero-width sequence: a CSI sequence, an OSC sequence ended by
\* BEL or by ESC \, ESC 7, ESC 8, or a bare bell
IsSequence(q) ==
    \/ q = <<BEL>>
    \/ Len(q) = 2 /\ q[1] = ESC /\ q[2] \in EscChars
    \/ /\ Len(q) >= 3 /\ q[1] = ESC /\ q[2] = "["
       /\ q[Len(q)] \in CsiFinals
       /\ \A i \in 3 .. (Len(q) - 1) : q[i] \in CsiParams
    \/ /\ Len(q) >= 3 /\ q[1] = ESC /\ q[2] = "]"
       /\ q[Len(q)] = BEL
       /\ \A i \in 3 .. (Len(q) - 1) : q[i] \notin {ESC, BEL}
    \/ /\ Len(q) >= 4 /\ q[1] = ESC /\ q[2] = "]"
       /\ q[Len(q) - 1] = ESC /\ q[Len(q)] = "\\"
       /\ \A i \in 3 .. (Len(q) - 2) : q[i] \notin {ESC, BEL}

C16_PrintableUnchanged ==
    IsPlain(nin, Printable \cup {LF}) => nout = nin

\* Position i starts a line of s that begins with the body of an OSC
\* sequence: digits, then ";"
BeginsOscBody(s, i) ==
    /\ i = 1 \/ s[i - 1] = LF
    /\ \E j \in (i + 1) .. Len(s) :
          /\ s[j] = ";"
          /\ \A k \in i .. (j - 1) : s[k] \in OscDigits

\* C16 amended: a text of printable bytes and line feeds is returned
\* unchanged unless one of its lines begins with digits and ";"; such a line
\* is taken for the rest of an OSC sequence and dropped up to its line feed.
C16_PrintableUnchangedUnlessOscBody ==
    IsPlain(nin, Printable \cup {LF}) =>
        /\ (\A i \in 1 .. Len(nin) : ~BeginsOscBody(nin, i)) => nout = nin
        /\ (BeginsOscBody(nin, 1) /\ IsPlain(nin, Printable)) => nout = <<>>

\* A text with a digit, a ";" and a line feed, none of whose lines begins
\* with an OSC body.
C16_Witness ==
    /\ Len(nin) = MaxInput
    /\ IsPlain(nin, Printable \cup {LF})
    /\ \E i \in 1 .. Len(nin) : nin[i] \in OscDigits
    /\ \E i \in 1 .. Len(nin) : nin[i] = ";"
    /\ \E i \in 1 .. Len(nin) : nin[i] = LF
    /\ \A i \in 1 .. Len(nin) : ~BeginsOscBody(nin, i)
    /\ nout = nin

(* ---------------------------------------------- session paths: claims *)

\* The text of a path up to and including its last separator, and after it
DirPart(path) == SubSeq(path, 1, LastIndex(path, SEP))

NamePart(path) == SubSeq(path, LastIndex(path, SEP) + 1, Len(path))

\* A file name with "." and S put before its last extension, or after the
\* name when it has none
InsertSid(name, sid) ==
    LET k == LastIndex(name, DOT)
    IN  IF k = 0 THEN name \o <<DOT>> \o sid
        ELSE SubSeq(name, 1, k - 1) \o <<DOT>> \o sid \o SubSeq(name, k, Len(name))

\* A path that names a file as written: it ends with a name other than "."
\* and "..", and has no empty, "." or ".." element before it
IsFilePath(path) ==
    /\ NamePart(path) \notin {<<>>, <<DOT>>, <<DOT, DOT>>}
    /\ LET d == DirPart(path)
       IN  \A i \in 1 .. Len(d) :
              /\ d[i] = SEP => (i = 1 \/ d[i - 1] \notin {SEP, DOT})
              /\ d[i] = DOT => (i > 1 /\ d[i - 1] # SEP)

HasSep(sid) == \E i \in 1 .. Len(sid) : sid[i] = SEP

\* C17 as stated: an empty S gives the base back; any other S is put, after a
\* dot, before the last extension of the file name (after the name when it
\* has no extension), and the directory part stays as it is.
C17_SidBeforeLastExtension ==
    /\ sessionID = <<>> => sessionLogFile = baseLogFile
    /\ (sessionID # <<>> /\ IsFilePath(baseLogFile)) =>
          /\ DirPart(sessionLogFile) = DirPart(baseLogFile)
          /\ NamePart(sessionLogFile) = InsertSid(NamePart(baseLogFile), sessionID)

\* C17 amended: the same for a session ID without a path separator and a base
\* that names a file by a clean path.
C17_SidWithoutSepBeforeLastExtension ==
    /\ sessionID = <<>> => sessionLogFile = baseLogFile
    /\ (sessionID # <<>> /\ ~HasSep(sessionID) /\ IsFilePath(baseLogFile)) =>
          sessionLogFile =
              DirPart(baseLogFile) \o InsertSid(NamePart(baseLogFile), sessionID)

\* A base with a directory and two extensions, as a/log.tar.gz, and a session
\* ID without separator.
C17_Witness ==
    /\ baseLogFile = <<SEP, "a", DOT, "a", DOT, "a">>
    /\ sessionID = <<"s">>
    /\ sessionLogFile = <<SEP, "a", DOT, "a", DOT, "s", DOT, "a">>

(* ---------------------------------------------- log directory: claims *)

\* A name of the form stem.X with the extension of the base after it, X being
\* any text, for the stem and extension of the base file name
IsSessionSibling(n, baseLogPath) ==
    LET name == NamePart(baseLogPath)
        k == LastIndex(name, DOT)
        stem == IF k = 0 THEN name ELSE SubSeq(name, 1, k - 1)
        ext == IF k = 0 THEN <<>> ELSE SubSeq(name, k, Len(name))
        head == stem \o <<DOT>>
    IN  /\ Len(n) >= Len(head) + Len(ext)
        /\ SubSeq(n, 1, Len(head)) = head
        /\ SubSeq(n, Len(n) - Len(ext) + 1, Len(n)) = ext

\* C18: a call that could read the directory has removed exactly the files
\* (not directories) named stem.*ext, other than the base file, modified
\* strictly before now - maxAge, and left every other entry as it was.
C18_PurgeRemovesExactlyStaleSiblings ==
    (purgeCall # NoCall /\ ~purgeCall.err) =>
        \A n \in EntryNames :
            LET was == purgeCall.before[n]
                stale == /\ was # NoEntry
                         /\ ~was.isDir
                         /\ IsSessionSibling(n, purgeCall.base)
                         /\ n # NamePart(purgeCall.base)
                         /\ was.modTime < purgeCall.cutoff
            IN  dirEntries[n] = IF stale THEN NoEntry ELSE was

\* A call removed one sibling and left another, modified exactly at the
\* cutoff.
C18_Witness ==
    /\ purgeCall # NoCall /\ ~purgeCall.err
    /\ \E n \in EntryNames :
          purgeCall.before[n] # NoEntry /\ dirEntries[n] = NoEntry
    /\ \E n \in EntryNames :
          /\ dirEntries[n] # NoEntry /\ ~dirEntries[n].isDir
          /\ IsSessionSibling(n, purgeCall.base)
          /\ dirEntries[n].modTime = purgeCall.cutoff

(* ----------------------------------------------------- driver: claims *)

\* The driver has taken no step of createProcessLock and owns no lock file.
DriverTookNoLock ==
    /\ pc[Driver] = "idle" /\ result[Driver] = "none"
    /\ Driver \notin lockPath /\ Driver \notin flocked
    /\ content[Driver] = <<>>

\* C19: called with the marker set (by another proxy), RunProxyWithIO only
\* returns nil: it takes no lock and creates no lock file, leaves the log
\* directory as it was (no purge, no session log removed or created), spawns
\* no shell and opens nothing.
C19_MarkerSetIsNoOp ==
    marker = "other" =>
        /\ dpc \in {"marker", "returned"}
        /\ dpc = "returned" => ret = "nil"
        /\ DriverTookNoLock
        /\ dirEntries = dirAtCall /\ purgeCall = NoCall
        /\ child = "none" /\ ptmx = "none" /\ logHandle = "none"
        /\ ~rawMode /\ defers = <<>>

\* The call returned with the marker set, although the lock path was free,
\* a stale sibling log was there to purge and an old session log to remove.
C19_Witness ==
    /\ marker = "other" /\ dpc = "returned" /\ ret = "nil"
    /\ lockPath = {}
    /\ dirEntries[SiblingLog] # NoEntry
    /\ dirEntries[SessionLog] # NoEntry /\ dirEntries[SessionLog].modTime = 0

\* C20: when pty.Start fails, RunProxyWithIO returns its error without ever
\* having a shell, a pty or an open session log, and when it has returned the
\* driver holds no lock and its lock file is gone from the lock path.
C20_SpawnFailureReleasesLock ==
    spawnFailed =>
        /\ ret = "failed to start PTY"
        /\ dpc \in {"unwind", "returned"}
        /\ child = "none" /\ ptmx = "none" /\ logHandle = "none" /\ ~rawMode
        /\ dpc = "returned" =>
              /\ pc[Driver] = "idle"
              /\ Driver \notin flocked
              /\ Driver \notin lockPath
              /\ defers = <<>>

\* The call returned after a failed spawn, its lock released and the lock
\* path empty.
C20_Witness ==
    /\ spawnFailed /\ dpc = "returned"
    /\ ret = "failed to start PTY"
    /\ result[Driver] = "ok" /\ pc[Driver] = "idle"
    /\ releases >= 1 /\ lockPath = {}

\* os.OpenFile(sessionLogFile, ...) was called and returned an error.
LogOpenFailed == childAtOpen # "unknown" /\ logHandle = "none"

\* The driver holds no lock and its lock file is gone from the lock path.
DriverLockReleased ==
    /\ pc[Driver] = "idle"
    /\ Driver \notin flocked
    /\ Driver \notin lockPath

\* C21: when os.OpenFile of the session log fails, RunProxyWithIO returns
\* "failed to open session log file", and when it has returned the lock is
\* released.  A failed os.Remove of the old session log does not end the
\* call: the driver goes on to os.OpenFile, and when the call then fails, it
\* fails because os.OpenFile failed.
C21_LogOpenFailureFatalRemoveFailureNot ==
    /\ LogOpenFailed =>
          /\ ret = "failed to open session log file"
          /\ dpc \in {"unwind", "returned"}
          /\ dpc = "returned" => (DriverLockReleased /\ defers = <<>>)
    /\ removeFailed =>
          /\ dpc = "openlog" \/ childAtOpen # "unknown"
          /\ ret \notin {"none", "nil"} => LogOpenFailed

\* The call returned the log-open error after a failed os.Remove of what was
\* at the session log path, its lock released and the lock path empty.
C21_Witness ==
    /\ dpc = "returned" /\ ret = "failed to open session log file"
    /\ removeFailed /\ LogOpenFailed
    /\ result[Driver] = "ok" /\ DriverLockReleased /\ lockPath = {}
    /\ releases >= 1

\* C22: after a Write of the bounded writer returned an error, the
\* pty-to-output copy goes on while the session runs: with the shell alive,
\* the pty open and the driver waiting in select, the copy has not ended.
C22_LogWriteFailureKeepsMirroring ==
    (logFailed /\ dpc = "run" /\ child = "running" /\ ptmx = "open") =>
        outTask # "done"

\* C23: once the shell has exited while the driver waits in select, both
\* copies end and the driver eventually returns nil, also when stdin delivers
\* nothing more and no signal arrives.
C23_ShellExitEndsSession ==
    (dpc = "run" /\ child = "exited") ~> (dpc = "returned" /\ ret = "nil")

ReleasedBefore(x, y) ==
    \A i, j \in 1 .. Len(released) :
        (released[i] = x /\ released[j] = y) => i < j

\* select was left and the call has returned.
SessionClosed == how # "none" /\ dpc = "returned"

\* C25: when a session that reached select has returned, its resources were
\* released in this order: terminal mode restored, signal relays stopped, pty
\* closed, log file closed, lock released.
C25_ReleaseOrderRestoreRelaysPtyLogLock ==
    SessionClosed =>
        /\ ReleasedBefore("term.Restore", "signal.Stop(ch)")
        /\ ReleasedBefore("term.Restore", "signal.Stop(sigCh)")
        /\ ReleasedBefore("signal.Stop(ch)", "ptmx.Close")
        /\ ReleasedBefore("signal.Stop(sigCh)", "ptmx.Close")
        /\ ReleasedBefore("ptmx.Close", "logFile.Close")
        /\ ReleasedBefore("logFile.Close", "cleanupProcessLock")

\* C25, amended: when a session that reached select has returned, its
\* resources were released in the reverse of the order the code acquired
\* them: termination-signal relay stopped, log file closed, terminal mode
\* restored (when it was made raw), resize relay stopped, pty closed, lock
\* released; and each of them is released.
C25_ReleaseOrderReverseOfAcquisition ==
    SessionClosed =>
        /\ released \in
              {<<"signal.Stop(sigCh)", "logFile.Close", "term.Restore",
                 "signal.Stop(ch)", "ptmx.Close", "cleanupProcessLock">>,
               <<"signal.Stop(sigCh)", "logFile.Close",
                 "signal.Stop(ch)", "ptmx.Close", "cleanupProcessLock">>}
        /\ logHandle = "closed" /\ ptmx = "closed" /\ ~rawMode
        /\ DriverLockReleased

\* A session on a terminal ended by itself and the call returned, all six
\* deferred calls done.
C25_Witness ==
    /\ SessionClosed /\ how = "done"
    /\ Len(released) = 6 /\ released[3] = "term.Restore"

\* How many times the deferred cleanupProcessLock ran
LockReleases ==
    Cardinality({i \in 1 .. Len(released) : released[i] = "cleanupProcessLock"})

\* C26: when a call that acquired the lock has returned, by whichever path,
\* cleanupProcessLock ran exactly once, it was the last deferred call to run,
\* and the lock is released; before the return it never ran with another
\* deferred call still to come.
C26_LockReleasedOnceAndLast ==
    /\ (dpc = "returned" /\ result[Driver] = "ok") =>
          /\ LockReleases = 1
          /\ released[Len(released)] = "cleanupProcessLock"
          /\ DriverLockReleased
    /\ LockReleases >= 1 => defers = <<>>

\* The call returned the raw-mode error: the resize relay stopped, the pty
\* closed, and the lock released last.
C26_Witness ==
    /\ dpc = "returned" /\ ret = "failed to set raw mode"
    /\ released = <<"signal.Stop(ch)", "ptmx.Close", "cleanupProcessLock">>
    /\ DriverLockReleased /\ lockPath = {}

\* The place of each step in the text of RunProxyWithIO
DriverRank(d) ==
    CASE d = "marker" -> 0
      [] d = "createProcessLock" -> 1
      [] d = "setenv" -> 2
      [] d = "purge" -> 3
      [] d = "spawn" -> 4
      [] d = "winch" -> 5
      [] d = "rawmode" -> 6
      [] d = "removelog" -> 7
      [] d = "openlog" -> 8
      [] d = "start" -> 9
      [] d = "run" -> 10
      [] d = "wait" -> 11
      [] d = "unwind" -> 12
      [] d = "returned" -> 13

AfterLockSteps ==
    {"setenv", "purge", "spawn", "winch", "rawmode", "removelog", "openlog",
     "start", "run", "wait"}

FirstChunks(k) == [i \in 1 .. k |-> i]

WriteAlone(w, p) ==
    LET r == Scan(w.lines, w.buf \o p, maxLines)
    IN  [lines |-> r.lines, buf |-> r.buf, file |-> flush(r.lines)]

RECURSIVE WriteOneByOne(_, _)
\* The writer after the calls ps, one at a time in this order
WriteOneByOne(w, ps) ==
    IF ps = <<>> THEN w ELSE WriteOneByOne(WriteAlone(w, Head(ps)), Tail(ps))

\* The statements of Write between w.mu.Lock() and w.mu.Unlock()
InWrite(t) == tpc[t] \in {"append", "scan", "truncate", "write", "unlock"}

\* C30: at most one task is inside Write's locked part, so no call rewrites
\* the file while another changes the ring or the buffer; and whenever no
\* task is inside it, the ring, the pending buffer and the file are what the
\* same calls give when they run one at a time, in the order they took the
\* mutex.
C30_ConcurrentWritesSerialized ==
    /\ \A t, u \in Tasks : (InWrite(t) /\ InWrite(u)) => t = u
    /\ \A t \in Tasks : InWrite(t) => mu = t
    /\ (\A t \in Tasks : ~InWrite(t)) =>
          [lines |-> lines, buf |-> buf, file |-> file]
             = WriteOneByOne([lines |-> <<>>, buf |-> <<>>, file |-> <<>>], order)

\* Two calls overlap: one task is half-way through its rewrite of the file,
\* the other has called Write and waits for the mutex.
C30_Witness ==
    \E t, u \in Tasks :
        /\ t # u /\ mu = t
        /\ tpc[t] = "write" /\ tp[t] = <<LF, LF>> /\ fidx[t] = 2
        /\ lines = <<<<LF>>, <<LF>>>> /\ file = <<LF>>
        /\ tpc[u] = "lock" /\ tp[u] = <<"a", LF>>

(* ------------------------------------------------ C32, C33: the lock file *)

\* C32: while a live process holds the lock (createProcessLock has returned
\* the file and cleanupProcessLock has not been called), the lock path names
\* the file that process created and the file holds its PID and a line break.
C32_LockFileHoldsHolderPid ==
    \A p \in Procs :
        (alive[p] /\ pc[p] = "held") =>
            (lockPath = {p} /\ content[p] = PidText(p))

\* C33: the os.Remove of cleanupProcessLock called by p never unlinks a file
\* that another live process created and still holds.
C33_ReleaseRemovesOnlyOwnFile ==
    [][\A p \in Procs :
          (pc[p] = "unlink" /\ pc'[p] = "idle") =>
              \A q \in lockPath \cap Procs :
                  (alive[q] /\ pc[q] = "held") => q = p]_vars

(* ----------------------------------------- C35, C36: marker and reaping *)

\* The driver has not yet passed os.Setenv
BeforeSetenv == dpc \in {"marker", "createProcessLock", "setenv"}

\* C35: the marker holds the proxy's PID only after createProcessLock returned
\* the lock, it is set before pty.Start is reached, every shell the driver
\* has spawned was spawned with the marker set, and a call that failed to
\* take the lock leaves the marker as it found it.
C35_MarkerSetBetweenLockAndSpawn ==
    /\ marker = "self" => (result[Driver] = "ok" /\ ~BeforeSetenv)
    /\ BeforeSetenv => child = "none"
    /\ dpc \in {"purge", "spawn"} => (marker = "self" /\ child = "none")
    /\ child # "none" => marker = "self"
    /\ ret = "failed to create process lock" => marker = "unset"

\* The shell runs with the marker set, under a driver that holds the lock.
C35_Witness ==
    /\ child = "running" /\ marker = "self" /\ LockHeld(Driver) /\ dpc = "run"

\* C36: whenever RunProxyWithIO has returned after pty.Start succeeded, the
\* shell has been waited for.
C36_ChildReapedBeforeReturn ==
    (dpc = "returned" /\ child # "none") => child = "reaped"

(* ------------------------------------------------- C34: the marker stays *)

\* This call has taken the lock: its cleanupProcessLock is deferred or has run
TookLockInThisCall ==
    \/ \E i \in 1 .. Len(defers) : defers[i] = "cleanupProcessLock"
    \/ \E i \in 1 .. Len(released) : released[i] = "cleanupProcessLock"

\* The marker holds the proxy's PID and this call did not set it: an earlier
\* call of RunProxyWithIO in this process took the lock
LaterCall == marker = "self" /\ ~TookLockInThisCall

\* C34: a call that took the lock leaves the marker set when it returns,
\* whatever it returns; the marker is never cleared; and a later call in the
\* process goes from the marker check straight to return nil: it takes no
\* step of createProcessLock, spawns nothing and touches no log.
C34_MarkerStaysSoLaterCallsAreNoOps ==
    /\ []((dpc = "returned" /\ TookLockInThisCall) => marker = "self")
    /\ [][marker = "self" => marker' = "self"]_vars
    /\ [](LaterCall =>
            /\ dpc \in {"marker", "returned"}
            /\ dpc = "returned" => ret = "nil"
            /\ pc[Driver] = "idle" /\ result[Driver] = "none"
            /\ child = "none" /\ ptmx = "none" /\ logHandle = "none"
            /\ dirEntries = dirAtCall /\ purgeCall = NoCall)

\* A later call has returned nil while the lock path was free for the taking.
C34_Witness ==
    /\ LaterCall /\ dpc = "returned" /\ ret = "nil"
    /\ lockPath = {} /\ releases >= 1

(* ------------------------------------- C40: closing the log at teardown *)

\* The deferred logFile.Close() runs in this step
ClosesLog == logHandle = "open" /\ logHandle' = "closed"

\* A Write of the bounded writer is between the Truncate of its flush and
\* its return: the file holds less than the ring
WriteInProgress == outTask = "flush"

\* C40: when the deferred logFile.Close() runs no Write of the bounded writer
\* is in progress, and none is when RunProxyWithIO has returned, whichever
\* way the session ended.
C40_NoWriteInProgressWhenLogCloses ==
    /\ [][ClosesLog => ~WriteInProgress]_vars
    /\ [](dpc = "returned" => ~WriteInProgress)

\* C40 as the code has it: when the session ended because both copies were
\* done, the pty-to-output copy has returned before the log file is closed,
\* so no Write is in progress then or at the return.  (After a signal the
\* copy is still running and the file may be closed between the Truncate
\* and the rewrite.)
C40_NoWriteInProgressWhenLogClosesAfterDone ==
    /\ [][(ClosesLog /\ how = "done") =>
             (inTask = "done" /\ outTask = "done")]_vars
    /\ []((dpc = "returned" /\ how = "done") =>
             (outTask = "done" /\ ~WriteInProgress))

\* Both copies ended, two chunks went through the writer without an error,
\* the log was closed and the call returned.
C40_Witness ==
    /\ dpc = "returned" /\ how = "done" /\ logHandle = "closed"
    /\ outTask = "done" /\ logSink = <<1, 2>> /\ ~logFailed

(* ------------------------------------ C39: what a reader sees of a flush *)

\* C39: while a flush is between its Truncate and its return, the file holds
\* the lines of the ring that the loop has written so far, whole and in the
\* ring's order: after the Truncate nothing, after the k-th WriteString the
\* first k lines, at the end of the loop all of them.
C39_FileIsPrefixOfRingDuringFlush ==
    \A t \in Tasks :
        /\ tpc[t] = "write" =>
              /\ fidx[t] \in 1 .. (Len(lines) + 1)
              /\ file = Concat(SubSeq(lines, 1, fidx[t] - 1))
        /\ tpc[t] = "unlock" => file = Concat(lines)

\* A flush of a ring of two lines has written the first: the file holds that
\* line and not yet the second.
C39_Witness ==
    \E t \in Tasks :
        /\ tpc[t] = "write" /\ fidx[t] = 2 /\ Len(lines) = 2
        /\ file = lines[1] /\ lines[1] # lines[2]

(* --------------------------------------- C38: log path and lock path *)

\* The session IDs without a path separator
PlainSids ==
    {<<c>> : c \in SidChars \ {SEP}}
       \cup {<<c, d>> : c \in SidChars \ {SEP}, d \in SidChars \ {SEP}}

\* Two different session IDs without separators give, for the base path of
\* this state, different log paths and different lock paths
SidsKeepPathsApart ==
    (sessionID # <<>> /\ ~HasSep(sessionID)) =>
        \A sid \in PlainSids :
            sid # sessionID =>
                /\ GetSessionBasedLogFile(baseLogFile, sid) # sessionLogFile
                /\ SessionLockFile(baseLogFile, sid) # sessionLockFile

\* C38: the log path and the lock path derived from one base path and one
\* session ID differ, and different session IDs without separators give
\* different log paths and different lock paths.
C38_LogAndLockPathsDistinct ==
    /\ sessionLockFile # sessionLogFile
    /\ SidsKeepPathsApart

\* C38 as the code has it: the same when the extension of the last element
\* of the base log path is not ".lock"; for a base log path that ends with
\* the extension ".lock" both paths are the same file.
C38_LogAndLockPathsDistinctUnlessLockExt ==
    /\ filepathExt(filepathBase(baseLogFile)) # LockExt =>
          sessionLockFile # sessionLogFile
    /\ filepathExt(baseLogFile) = LockExt => sessionLockFile = sessionLogFile
    /\ SidsKeepPathsApart

\* A base with a directory and an extension, as d/proxy.log, and a session
\* ID: the log is d/proxy.s.log, the lock d/proxy.s.lock.
C38_Witness ==
    /\ baseLogFile = <<"a", SEP, "a", DOT, "a">> /\ sessionID = <<"s">>
    /\ sessionLogFile = <<"a", SEP, "a", DOT, "s", DOT, "a">>
    /\ sessionLockFile = <<"a", SEP, "a", DOT, "s", DOT, "l">>

(* ------------------------------- C37: the purge and the running sessions *)

\* C37: the session log of every session whose proxy is running is in the
\* directory, whatever purges other drivers have run and however long ago
\* the session last wrote.
C37_PurgeSparesRunningSessions ==
    \A n \in running : dirEntries[n] # NoEntry

(* ------------------------------------------------ C31: the resize relay *)

\* The pty does not have the size the terminal has now
PtyStale == ptySize # termSize

\* A propagation that gives the pty the terminal's size is on its way: a
\* signal waits in ch, or the relay is about to read the size, or it has
\* read the size the terminal still has
FixOnItsWay ==
    \/ winch > 0
    \/ rpc = "get"
    \/ rpc = "set" /\ rsize = termSize

\* C31: with a terminal as stdin, the relay sets the pty to the terminal's
\* size at start; while the session runs, whenever the pty lacks the
\* terminal's current size a propagation that will set it is on its way,
\* also when resizes came during a propagation and a signal was dropped, and
\* the pty gets the current size in the end; after logging an error the
\* relay waits for the next signal, and it ends only when ch is closed.
C31_ResizeRelayFollowsTerminal ==
    /\ (stdinKind = "tty") ~> (ptySize # 0 \/ relayStopped)
    /\ []((stdinKind = "tty" /\ mainSent /\ ~relayStopped /\ PtyStale)
             => FixOnItsWay)
    /\ (stdinKind = "tty" /\ PtyStale) ~> (~PtyStale \/ relayStopped)
    /\ [][(~relayErrs /\ relayErrs') =>
             (rpc' = "recv" /\ UNCHANGED relayStopped)]_vars
    /\ [](rpc = "ended" => relayStopped)

\* The terminal was resized twice during one propagation, the second signal
\* found ch full and was dropped, and the pty has the last size all the same.
C31_Witness ==
    /\ stdinKind = "tty" /\ dropped /\ ~relayStopped
    /\ termSize = 3 /\ ptySize = 3
    /\ rpc = "recv" /\ winch = 0

====
